---- MODULE Spec2Model ----
(***************************************************************************)
(* Model of the profiling and charting core of dataIDE: to_dataframe,      *)
(* coerce_numeric, compute_profile, profile_to_rows and suggest_charts      *)
(* (src/dataide/utils.py, src/dataide/services/profile.py,                 *)
(* src/dataide/services/charts.py), and of the /api/generate handler with  *)
(* its payload suppliers (src/dataide/routes.py,                           *)
(* src/dataide/services/generator.py).                                     *)
(*                                                                         *)
(* Python dicts are ordered: a dict is modelled as a sequence of           *)
(* [k |-> key, v |-> value] entries in insertion order.  Floats are exact  *)
(* rationals [nan, num, den, root]: the value is (num/den)^(1/root), or    *)
(* NaN when nan is TRUE.                                                   *)
(***************************************************************************)
EXTENDS Integers, Sequences, FiniteSets, TLC

VARIABLES sample_rows, tables, profile, flat, charts, prompt, supplier, response, pc,
          figures, request, rng, workers

vars == <<sample_rows, tables, profile, flat, charts, prompt, supplier, response, pc,
          figures, request, rng, workers>>

\* ---------------------------------------------------------------- bounds
MaxRows == 3
MaxWideRows == 2
MaxNum == 2
MaxTables == 4
MaxRequests == 2
MaxWorkers == 2
MaxDraws == 3

\* ------------------------------------------------------- scalars of a row
\* A cell of a row is None, a bool, an int or a str; NaN is what pandas puts
\* in a frame where a row has no such key.
None == [tag |-> "None", n |-> 0, s |-> ""]
NaN == [tag |-> "NaN", n |-> 0, s |-> ""]
Num(i) == [tag |-> "int", n |-> i, s |-> ""]
Text(t) == [tag |-> "str", n |-> 0, s |-> t]
Bool(b) == [tag |-> "bool", n |-> IF b THEN 1 ELSE 0, s |-> ""]

IsNull(c) == c.tag \in {"None", "NaN"}

\* ----------------------------------------------------------------- floats
Abs(i) == IF i < 0 THEN -i ELSE i

RECURSIVE Gcd(_, _)
Gcd(a, b) == IF b = 0 THEN a ELSE Gcd(b, a % b)

FloatNaN == [nan |-> TRUE, num |-> 0, den |-> 1, root |-> 1]

Float(n, d) ==
    LET g == Gcd(Abs(n), d)
    IN  [nan |-> FALSE, num |-> n \div g, den |-> d \div g, root |-> 1]

Sqrt(f) == IF f.num = 0 THEN f ELSE [f EXCEPT !.root = 2]

\* Python's == on two floats (IEEE 754: NaN is unequal to everything).
PyEq(x, y) == ~x.nan /\ ~y.nan /\ x.root = y.root /\ x.num * y.den = y.num * x.den

\* Python's <= on two floats of root 1.
PyLe(x, y) == ~x.nan /\ ~y.nan /\ x.num * y.den <= y.num * x.den

\* ------------------------------------------------------------ dict helpers
Keys(d) == [i \in 1..Len(d) |-> d[i].k]
KeySet(d) == {d[i].k : i \in 1..Len(d)}
HasKey(d, key) == \E i \in 1..Len(d) : d[i].k = key
Get(d, key) == d[CHOOSE i \in 1..Len(d) : d[i].k = key].v
Range(s) == {s[i] : i \in 1..Len(s)}

\* d[key] = val of a Python dict: overwrite in place, or append.
Put(d, key, val) ==
    IF HasKey(d, key)
    THEN [i \in 1..Len(d) |-> IF d[i].k = key THEN [k |-> key, v |-> val] ELSE d[i]]
    ELSE Append(d, [k |-> key, v |-> val])

RECURSIVE Update(_, _)
Update(d, e) == IF e = <<>> THEN d ELSE Update(Put(d, Head(e).k, Head(e).v), Tail(e))

\* ------------------------------------------------------------ to_dataframe
\* Keys of the row dicts in first-seen order (pandas keeps dict order).
\* df.columns: the keys of the rows in the order of their first appearance,
\* row after row (after the columns already there).
UnionKeys(cols, rows) ==
    LET new == UNION {KeySet(rows[i]) : i \in 1..Len(rows)} \ Range(cols)
        row == [k \in new |-> CHOOSE i \in 1..Len(rows) :
                                  /\ k \in KeySet(rows[i])
                                  /\ \A j \in 1..(i - 1) : k \notin KeySet(rows[j])]
        at == [k \in new |-> CHOOSE p \in 1..Len(rows[row[k]]) :
                                 /\ rows[row[k]][p].k = k
                                 /\ \A q \in 1..(p - 1) : rows[row[k]][q].k # k]
        rank == [k \in new |->
                   Cardinality({o \in new : \/ row[o] < row[k]
                                            \/ row[o] = row[k] /\ at[o] < at[k]})]
    IN  cols \o [p \in 1..Cardinality(new) |-> CHOOSE k \in new : rank[k] = p - 1]

\* dtype pandas infers for a column of cells (lib.maybe_convert_objects).
InferDtype(cells) ==
    LET tags == {cells[i].tag : i \in 1..Len(cells)}
    IN  IF "str" \in tags THEN "object"
        ELSE IF "bool" \in tags THEN (IF tags = {"bool"} THEN "bool" ELSE "object")
        ELSE IF "int" \in tags
             THEN (IF tags = {"int"} THEN "int64" ELSE "float64")
        ELSE IF "NaN" \in tags THEN "float64"
        ELSE "object"

\* A series is [dtype, values]; in a float64 column None is stored as NaN.
MakeSeries(cells) ==
    LET dt == InferDtype(cells)
    IN  [dtype |-> dt,
         values |-> [i \in 1..Len(cells) |->
                       IF dt = "float64" /\ cells[i].tag = "None" THEN NaN ELSE cells[i]]]

to_dataframe(rows) ==
    LET cols == UnionKeys(<<>>, rows)
        cell(row, c) == IF HasKey(row, c) THEN Get(row, c) ELSE NaN
    IN  [columns |-> cols,
         len |-> Len(rows),
         series |-> [c \in Range(cols) |->
                       MakeSeries([i \in 1..Len(rows) |-> cell(rows[i], c)])]]

\* ---------------------------------------------------------- coerce_numeric
\* Strings that parse as a number, with their value.
NumericText == [s \in {"1", "2", "1.0"} |-> IF s = "2" THEN 2 ELSE 1]

ToNumeric(c) ==
    IF c.tag = "int" THEN Num(c.n)
    ELSE IF c.tag = "bool" THEN c
    ELSE IF c.tag = "str" /\ c.s \in DOMAIN NumericText THEN Num(NumericText[c.s])
    ELSE NaN

coerce_numeric(series) ==
    [dtype |-> IF series.dtype \in {"int64", "bool"} THEN series.dtype ELSE "float64",
     values |-> [i \in 1..Len(series.values) |-> ToNumeric(series.values[i])]]

NotNa(series) == {i \in 1..Len(series.values) : ~IsNull(series.values[i])}
NotNaAny(series) == NotNa(series) # {}

is_numeric_dtype(series) == series.dtype \in {"int64", "float64", "bool"}

\* The non-null numbers of a coerced series, in row order.
RECURSIVE Compact(_)
Compact(vals) ==
    IF vals = <<>> THEN <<>>
    ELSE IF IsNull(Head(vals)) THEN Compact(Tail(vals))
    ELSE <<Head(vals).n>> \o Compact(Tail(vals))

RECURSIVE Insert(_, _)
Insert(x, s) ==
    IF s = <<>> THEN <<x>>
    ELSE IF x <= Head(s) THEN <<x>> \o s
    ELSE <<Head(s)>> \o Insert(x, Tail(s))

RECURSIVE Sort(_)
Sort(s) == IF s = <<>> THEN <<>> ELSE Insert(Head(s), Sort(Tail(s)))

RECURSIVE Sum(_)
Sum(s) == IF s = <<>> THEN 0 ELSE Head(s) + Sum(Tail(s))

SumSq(s) == Sum([i \in 1..Len(s) |-> s[i] * s[i]])

\* Mutant: interpolates between the values in row order, without sorting.
Quantile_Unsorted(xs, j) ==
    LET h == (Len(xs) - 1) * j
        lo == (h \div 4) + 1
        r == h % 4
    IN  IF r = 0 THEN Float(xs[lo], 1)
        ELSE Float(4 * xs[lo] + r * (xs[lo + 1] - xs[lo]), 4)

\* Series.quantile(j/4), linear interpolation between the order statistics
\* around position (n-1)*j/4.
Quantile(xs, j) ==
    LET s == Sort(xs)
        h == (Len(s) - 1) * j
        lo == (h \div 4) + 1
        r == h % 4
    IN  IF r = 0 THEN Float(s[lo], 1)
        ELSE Float(4 * s[lo] + r * (s[lo + 1] - s[lo]), 4)

Mean(xs) == Float(Sum(xs), Len(xs))

\* Series.std(ddof=0): population standard deviation.
Std(xs) ==
    LET n == Len(xs)
    IN  Sqrt(Float(n * SumSq(xs) - Sum(xs) * Sum(xs), n * n))

NumericBlock(numeric) ==
    LET xs == Compact(numeric.values)
        s == Sort(xs)
    IN  << [k |-> "min", v |-> Float(s[1], 1)],
           [k |-> "p25", v |-> Quantile(xs, 1)],
           [k |-> "p50", v |-> Quantile(xs, 2)],
           [k |-> "p75", v |-> Quantile(xs, 3)],
           [k |-> "max", v |-> Float(s[Len(s)], 1)],
           [k |-> "mean", v |-> Mean(xs)],
           [k |-> "std", v |-> Std(xs)] >>

\* --------------------------------------------------------- coerce_datetime
\* Strings that parse as a date, with the day's ordinal (days since 2025-01-01).
DateText ==
    [s \in {"1970-01-01", "2025-01-01", "2025-03-15"} |->
        CASE s = "1970-01-01" -> -20089 [] s = "2025-01-01" -> 0 [] OTHER -> 73]

IsoDate(ord) == CHOOSE s \in DOMAIN DateText : DateText[s] = ord

ToDatetime(c) ==
    IF c.tag = "str" /\ c.s \in DOMAIN DateText THEN Num(DateText[c.s])
    ELSE IF c.tag = "int" THEN Num(DateText["1970-01-01"])
    ELSE NaN

coerce_datetime(series) ==
    [dtype |-> "datetime64[ns]",
     values |-> [i \in 1..Len(series.values) |-> ToDatetime(series.values[i])]]

DateBlock(dt) ==
    LET s == Sort(Compact(dt.values))
    IN  << [k |-> "min_date", v |-> IsoDate(s[1])],
           [k |-> "max_date", v |-> IsoDate(s[Len(s)])] >>

\* ------------------------------------------------------------- str methods
\* str.lower() on the strings used as column names and dtype hints.
Lower(s) ==
    CASE s = "INT" -> "int"
      [] s = "Date" -> "date"
      [] s = "Order_Date" -> "order_date"
      [] OTHER -> s

\* "date" in s, for a lower-cased s.
ContainsDate(s) == s \in {"date", "datetime", "order_date"}

\* str(v) of a cell (Series.astype(str)).
Str(c) ==
    CASE c.tag = "None" -> "None"
      [] c.tag = "NaN" -> "nan"
      [] c.tag = "str" -> c.s
      [] c.tag = "bool" -> IF c.n = 1 THEN "True" ELSE "False"
      [] c.tag = "int" -> CASE c.n = 0 -> "0" [] c.n = 1 -> "1" [] c.n = 2 -> "2"
                            [] c.n = 3 -> "3" [] c.n = 4 -> "4" [] OTHER -> "5"

\* -------------------------------------------------------------- top_values
\* Series.value_counts(): the distinct values in first-seen order with their
\* counts, sorted by count, largest first, ties in first-seen order.
RECURSIVE Distinct(_, _)
Distinct(seen, vals) ==
    IF vals = <<>> THEN seen
    ELSE Distinct(IF Head(vals) \in Range(seen) THEN seen ELSE Append(seen, Head(vals)),
                  Tail(vals))

Count(vals, x) == Cardinality({i \in 1..Len(vals) : vals[i] = x})

RECURSIVE InsertByCount(_, _)
InsertByCount(e, s) ==
    IF s = <<>> THEN <<e>>
    ELSE IF e.v > Head(s).v THEN <<e>> \o s
    ELSE <<Head(s)>> \o InsertByCount(e, Tail(s))

RECURSIVE SortByCount(_, _)
SortByCount(acc, es) ==
    IF es = <<>> THEN acc ELSE SortByCount(InsertByCount(Head(es), acc), Tail(es))

TopN == 5

HeadN(s, n) == IF Len(s) <= n THEN s ELSE SubSeq(s, 1, n)

value_counts(strs) ==
    LET ds == Distinct(<<>>, strs)
    IN  SortByCount(<<>>, [i \in 1..Len(ds) |-> [k |-> ds[i], v |-> Count(strs, ds[i])]])

TopValues(series) ==
    HeadN(value_counts([i \in 1..Len(series.values) |-> Str(series.values[i])]), TopN)

\* ------------------------------------------------------------ schema hints
\* ColumnMeta and TableSchema, with the fields the profile reads.
Col(name, dtype) == [name |-> name, dtype |-> dtype]
Schema(name, cols) == [name |-> name, columns |-> cols]

\* schema_by_table.get(table_name): the last schema of that name, or none (<<>>).
SchemaFor(schemas, table_name) ==
    LET hits == {i \in 1..Len(schemas) : schemas[i].name = table_name}
    IN  IF hits = {} THEN <<>>
        ELSE <<schemas[CHOOSE i \in hits : \A j \in hits : j <= i]>>

\* hinted_dtype: <<>> is Python's None, <<s>> the lower-cased dtype of the first
\* column declaration of that name.
HintedDtype(t_schema, column_name) ==
    IF t_schema = <<>> THEN <<>>
    ELSE LET cms == t_schema[1].columns
             hits == {i \in 1..Len(cms) : cms[i].name = column_name}
         IN  IF hits = {} THEN <<>>
             ELSE <<Lower(cms[CHOOSE i \in hits : \A j \in hits : i <= j].dtype)>>

NumericHints == {"int", "integer", "bigint", "float", "double", "decimal", "number"}

\* ---------------------------------------------------------- column profile
E(key, val) == [k |-> key, v |-> val]

\* Mutant: values are compared after numeric coercion.
NUnique_Coerced(series) ==
    Cardinality({IF IsNull(ToNumeric(series.values[i])) THEN series.values[i]
                 ELSE ToNumeric(series.values[i]) : i \in NotNa(series)})

\* Series.nunique(dropna=True): different non-null raw values.
NUnique(series) == Cardinality({series.values[i] : i \in NotNa(series)})

\* Mutant: nulls counts the None cells only, not the cells of absent keys.
BaseStats_NoneOnly(df, series) ==
    LET non_null_count == Cardinality(NotNa(series))
    IN  << E("non_null", non_null_count),
           E("nulls", Cardinality({i \in 1..Len(series.values) :
                                     series.values[i].tag = "None"})),
           E("null_pct", IF df.len = 0 THEN Float(0, 1)
                         ELSE Float(df.len - non_null_count,
                                    IF df.len < 1 THEN 1 ELSE df.len)),
           E("distinct", NUnique(series)) >>

BaseStats(df, series) ==
    LET non_null_count == Cardinality(NotNa(series))
    IN  << E("non_null", non_null_count),
           E("nulls", df.len - non_null_count),
           E("null_pct", IF df.len = 0 THEN Float(0, 1)
                         ELSE Float(df.len - non_null_count,
                                    IF df.len < 1 THEN 1 ELSE df.len)),
           E("distinct", NUnique(series)) >>

\* Mutant: a hint, when there is one, decides alone.
NumericGate_HintDecides(hinted_dtype, series) ==
    IF hinted_dtype # <<>> THEN hinted_dtype[1] \in NumericHints
    ELSE is_numeric_dtype(series)

NumericGate(hinted_dtype, series) ==
    \/ (hinted_dtype # <<>> /\ hinted_dtype[1] \in NumericHints)
    \/ is_numeric_dtype(series)

\* Mutant: the column name is searched as written, without lower().
DateGate_CaseSensitive(hinted_dtype, column_name) ==
    \/ (hinted_dtype # <<>> /\ hinted_dtype[1] # "" /\ ContainsDate(hinted_dtype[1]))
    \/ ContainsDate(column_name)

DateGate(hinted_dtype, column_name) ==
    \/ (hinted_dtype # <<>> /\ hinted_dtype[1] # "" /\ ContainsDate(hinted_dtype[1]))
    \/ ContainsDate(Lower(column_name))

\* Mutant: the gate alone decides; min(), quantile() ... of an all-NaN series
\* are NaN.
WithNumeric_GateOnly(stats, hinted_dtype, series) ==
    IF NumericGate(hinted_dtype, series)
    THEN Update(stats,
                IF NotNaAny(coerce_numeric(series))
                THEN NumericBlock(coerce_numeric(series))
                ELSE << E("min", FloatNaN), E("p25", FloatNaN), E("p50", FloatNaN),
                        E("p75", FloatNaN), E("max", FloatNaN), E("mean", FloatNaN),
                        E("std", FloatNaN) >>)
    ELSE stats

WithNumeric(stats, hinted_dtype, series) ==
    IF NumericGate(hinted_dtype, series) /\ NotNaAny(coerce_numeric(series))
    THEN Update(stats, NumericBlock(coerce_numeric(series)))
    ELSE stats

WithDate(stats, hinted_dtype, column_name, series) ==
    IF DateGate(hinted_dtype, column_name) /\ NotNaAny(coerce_datetime(series))
    THEN Update(stats, DateBlock(coerce_datetime(series)))
    ELSE stats

WithTopValues(stats, series) ==
    IF series.dtype = "object" /\ Len(TopValues(series)) > 0
    THEN Put(stats, "top_values", TopValues(series))
    ELSE stats

\* numeric.quantile(q) of a bool series: numpy's percentile subtracts the
\* neighbouring values, which raises TypeError for booleans.
QuantileRaises(numeric) == numeric.dtype = "bool"

\* The numeric block of the column is entered and raises.
ColumnStatsRaises(df, t_schema, column_name) ==
    LET series == df.series[column_name]
    IN  /\ NumericGate(HintedDtype(t_schema, column_name), series)
        /\ NotNaAny(coerce_numeric(series))
        /\ QuantileRaises(coerce_numeric(series))

ColumnStats(df, t_schema, column_name) ==
    LET series == df.series[column_name]
        hinted_dtype == HintedDtype(t_schema, column_name)
    IN  WithTopValues(
            WithDate(
                WithNumeric(BaseStats(df, series), hinted_dtype, series),
                hinted_dtype, column_name, series),
            series)

\* ------------------------------------------------------------- correlation
\* DataFrame.corr(): Pearson coefficient over the rows where both columns are
\* non-null, NaN when there is no such row or a variance is zero; round(3).
\* The least m of lo..hi with m + 1/2 above the root of f + r/q, found by
\* halving: m*m + m > f, or m*m + m = f and r/q < 1/4.
RECURSIVE LeastAbove(_, _, _, _, _)
LeastAbove(lo, hi, f, r, q) ==
    IF lo = hi THEN lo
    ELSE LET m == (lo + hi) \div 2
         IN  IF f < m * m + m \/ (f = m * m + m /\ 4 * r < q)
             THEN LeastAbove(lo, m, f, r, q)
             ELSE LeastAbove(m + 1, hi, f, r, q)

\* round(1000 * sqrt(p / q)) for 0 <= p <= q.
RoundedRoot(p, q) ==
    LET x == 1000000 * p
    IN  LeastAbove(0, 1000, x \div q, x % q, q)

\* Row positions where both columns are non-null, in row order.
Complete(xa, xb) ==
    LET F[i \in 0..Len(xa)] ==
            IF i = 0 THEN <<>>
            ELSE IF ~IsNull(xa[i]) /\ ~IsNull(xb[i]) THEN Append(F[i - 1], i) ELSE F[i - 1]
    IN  F[Len(xa)]

Pearson(xa, xb) ==
    LET both == Complete(xa, xb)
        xs == [i \in 1..Len(both) |-> xa[both[i]].n]
        ys == [i \in 1..Len(both) |-> xb[both[i]].n]
        n == Len(both)
        cov == n * Sum([i \in 1..n |-> xs[i] * ys[i]]) - Sum(xs) * Sum(ys)
        vx == n * SumSq(xs) - Sum(xs) * Sum(xs)
        vy == n * SumSq(ys) - Sum(ys) * Sum(ys)
    IN  IF n = 0 \/ vx * vy = 0 THEN FloatNaN
        ELSE Float((IF cov < 0 THEN -1 ELSE 1) * RoundedRoot(cov * cov, vx * vy), 1000)

\* Mutant: selects the columns by dtype instead of by coercion.
NumericColumns_ByDtype(df) ==
    LET F[i \in 0..Len(df.columns)] ==
            IF i = 0 THEN <<>>
            ELSE IF is_numeric_dtype(df.series[df.columns[i]])
                    /\ NotNaAny(df.series[df.columns[i]])
                 THEN Append(F[i - 1], df.columns[i])
                 ELSE F[i - 1]
    IN  F[Len(df.columns)]

NumericColumns(df) ==
    LET F[i \in 0..Len(df.columns)] ==
            IF i = 0 THEN <<>>
            ELSE IF NotNaAny(coerce_numeric(df.series[df.columns[i]]))
                 THEN Append(F[i - 1], df.columns[i])
                 ELSE F[i - 1]
    IN  F[Len(df.columns)]

\* numeric_df.corr(numeric_only=True).round(3).to_dict(): column -> row -> r.
CorrDict(df, cols) ==
    LET num(c) == coerce_numeric(df.series[c]).values
    IN  [i \in 1..Len(cols) |->
            E(cols[i], [j \in 1..Len(cols) |->
                          E(cols[j], Pearson(num(cols[i]), num(cols[j])))])]

\* --------------------------------------------------------- compute_profile
TableInfo(rows, t_schema) ==
    LET df == to_dataframe(rows)
        cols == [i \in 1..Len(df.columns) |->
                   E(df.columns[i], ColumnStats(df, t_schema, df.columns[i]))]
        ncols == NumericColumns(df)
    IN  IF df.len = 0 THEN [row_count |-> df.len, columns |-> <<>>]
        ELSE IF Len(ncols) >= 2
             THEN [row_count |-> df.len, columns |-> cols,
                   correlation_pearson |-> CorrDict(df, ncols)]
        ELSE [row_count |-> df.len, columns |-> cols]

\* Mutant: tables without rows are skipped, as suggest_charts skips them.
RECURSIVE ProfileLoop_SkipEmpty(_, _, _)
ProfileLoop_SkipEmpty(acc, items, schemas) ==
    IF items = <<>> THEN acc
    ELSE ProfileLoop_SkipEmpty(
             IF Len(Head(items).v) = 0 THEN acc
             ELSE Put(acc, Head(items).k,
                      TableInfo(Head(items).v, SchemaFor(schemas, Head(items).k))),
             Tail(items), schemas)

RECURSIVE ProfileLoop(_, _, _)
ProfileLoop(acc, items, schemas) ==
    IF items = <<>> THEN acc
    ELSE ProfileLoop(Put(acc, Head(items).k,
                         TableInfo(Head(items).v, SchemaFor(schemas, Head(items).k))),
                     Tail(items), schemas)

\* compute_profile raises instead of returning: the exception of a column
\* leaves the loops.
compute_profile_raises(rows_by_table, schemas) ==
    \E i \in 1..Len(rows_by_table) :
        LET df == to_dataframe(rows_by_table[i].v)
        IN  /\ df.len # 0
            /\ \E c \in Range(df.columns) :
                  ColumnStatsRaises(df, SchemaFor(schemas, rows_by_table[i].k), c)

\* Mutant: the tables of the schema list are profiled too, as tables of 0 rows
\* when they have no sample rows.
compute_profile_BySchema(rows_by_table, schemas) ==
    LET F[i \in 0..Len(schemas)] ==
            IF i = 0 THEN ProfileLoop(<<>>, rows_by_table, schemas)
            ELSE IF HasKey(F[i - 1], schemas[i].name) THEN F[i - 1]
                 ELSE Put(F[i - 1], schemas[i].name, TableInfo(<<>>, <<>>))
    IN  F[Len(schemas)]

compute_profile(rows_by_table, schemas) == ProfileLoop(<<>>, rows_by_table, schemas)

\* --------------------------------------------------------- profile_to_rows
Rec(level, table, column, metric, value) ==
    [level |-> level, table |-> table, column |-> column, metric |-> metric,
     value |-> value]

\* f"{a}~{b}"
PairName(a, b) == a \o "~" \o b

RECURSIVE Concat(_)
Concat(ss) == IF ss = <<>> THEN <<>> ELSE Head(ss) \o Concat(Tail(ss))

\* Mutant: only the scalar stats are emitted, the top_values mapping is dropped.
ColumnRecs_ScalarsOnly(tname, col, cstats) ==
    Concat([i \in 1..Len(cstats) |->
              IF cstats[i].k = "top_values" THEN <<>>
              ELSE << Rec("column", tname, col, cstats[i].k, cstats[i].v) >>])

ColumnRecs(tname, col, cstats) ==
    [i \in 1..Len(cstats) |-> Rec("column", tname, col, cstats[i].k, cstats[i].v)]

\* Mutant: only the diagonal is skipped (j == i), mirrored pairs are emitted.
CorrRecs_Mirrored(tname, corr) ==
    LET cols == Keys(corr)
        inner(a) == IF HasKey(corr, a) THEN Get(corr, a) ELSE <<>>
        one(i, j) ==
            IF j = i \/ ~HasKey(inner(cols[i]), cols[j]) THEN <<>>
            ELSE << Rec("correlation", tname, "", PairName(cols[i], cols[j]),
                        Get(inner(cols[i]), cols[j])) >>
    IN  Concat([i \in 1..Len(cols) |-> Concat([j \in 1..Len(cols) |-> one(i, j)])])

CorrRecs(tname, corr) ==
    LET cols == Keys(corr)
        inner(a) == IF HasKey(corr, a) THEN Get(corr, a) ELSE <<>>
        one(i, j) ==
            IF j <= i \/ ~HasKey(inner(cols[i]), cols[j]) THEN <<>>
            ELSE << Rec("correlation", tname, "", PairName(cols[i], cols[j]),
                        Get(inner(cols[i]), cols[j])) >>
    IN  Concat([i \in 1..Len(cols) |-> Concat([j \in 1..Len(cols) |-> one(i, j)])])

\* Mutant: the correlation records of a table come before its column records.
TableRecs_CorrFirst(tname, tinfo) ==
    << Rec("table", tname, "", "row_count",
           IF "row_count" \in DOMAIN tinfo THEN tinfo.row_count ELSE 0) >>
    \o (IF "correlation_pearson" \in DOMAIN tinfo /\ tinfo.correlation_pearson # <<>>
        THEN CorrRecs(tname, tinfo.correlation_pearson)
        ELSE <<>>)
    \o (IF "columns" \in DOMAIN tinfo
        THEN Concat([i \in 1..Len(tinfo.columns) |->
                       ColumnRecs(tname, tinfo.columns[i].k, tinfo.columns[i].v)])
        ELSE <<>>)

TableRecs(tname, tinfo) ==
    << Rec("table", tname, "", "row_count",
           IF "row_count" \in DOMAIN tinfo THEN tinfo.row_count ELSE 0) >>
    \o (IF "columns" \in DOMAIN tinfo
        THEN Concat([i \in 1..Len(tinfo.columns) |->
                       ColumnRecs(tname, tinfo.columns[i].k, tinfo.columns[i].v)])
        ELSE <<>>)
    \o (IF "correlation_pearson" \in DOMAIN tinfo /\ tinfo.correlation_pearson # <<>>
        THEN CorrRecs(tname, tinfo.correlation_pearson)
        ELSE <<>>)

profile_to_rows(prof) ==
    Concat([i \in 1..Len(prof) |-> TableRecs(prof[i].k, prof[i].v)])

\* ---------------------------------------------------------- suggest_charts
\* A SuggestedChart: y is <<>> for None, <<column>> otherwise.  The em dash of
\* the titles is written "--".
SuggestedChart(title, kind, table, x, y) ==
    [title |-> title, kind |-> kind, table |-> table, x |-> x, y |-> y]

MaxCategories == 30
MaxCharts == 6

\* next((c for c in df.columns if c in good), None): <<>> is None.
FirstColumn(df, good) ==
    LET hits == {i \in 1..Len(df.columns) : df.columns[i] \in good}
    IN  IF hits = {} THEN <<>>
        ELSE <<df.columns[CHOOSE i \in hits : \A j \in hits : i <= j]>>

\* df[column].astype(str).nunique()
NUniqueStr(series) == Cardinality({Str(series.values[i]) : i \in 1..Len(series.values)})

IsNumericColumn(df, c) == NotNaAny(coerce_numeric(df.series[c]))
IsCategoryColumn(df, c) ==
    df.series[c].dtype = "object" /\ NUniqueStr(df.series[c]) <= MaxCategories
IsDateColumn(df, c) ==
    ContainsDate(Lower(c)) /\ NotNaAny(coerce_datetime(df.series[c]))

HistChart(table_name, df) ==
    LET column == FirstColumn(df, {c \in Range(df.columns) : IsNumericColumn(df, c)})
    IN  IF column = <<>> THEN <<>>
        ELSE <<SuggestedChart(table_name \o "." \o column[1] \o " -- distribution",
                              "hist", table_name, column[1], <<>>)>>

\* Mutant: the bar suggestion takes the first text column, however many
\* distinct values it has.
BarChart_AnyCardinality(table_name, df) ==
    LET column == FirstColumn(df, {c \in Range(df.columns) :
                                       df.series[c].dtype = "object"})
    IN  IF column = <<>> THEN <<>>
        ELSE <<SuggestedChart(table_name \o "." \o column[1] \o " -- top categories",
                              "bar", table_name, column[1], <<>>)>>

BarChart(table_name, df) ==
    LET column == FirstColumn(df, {c \in Range(df.columns) : IsCategoryColumn(df, c)})
    IN  IF column = <<>> THEN <<>>
        ELSE <<SuggestedChart(table_name \o "." \o column[1] \o " -- top categories",
                              "bar", table_name, column[1], <<>>)>>

\* Mutant: a date column is one whose dtype is a datetime, which a column of
\* date strings is not.
LineChart_ByDtype(table_name, df) ==
    LET date_col == FirstColumn(df, {c \in Range(df.columns) :
                                         ContainsDate(Lower(c))
                                         /\ df.series[c].dtype = "datetime64[ns]"})
        num_col == FirstColumn(df, {c \in Range(df.columns) : IsNumericColumn(df, c)})
    IN  IF date_col # <<>> /\ date_col[1] # "" /\ num_col # <<>> /\ num_col[1] # ""
        THEN <<SuggestedChart(table_name \o ": " \o num_col[1] \o " over " \o date_col[1],
                              "line", table_name, date_col[1], num_col)>>
        ELSE <<>>

\* if date_col and num_col: None and the empty string are both falsy.
LineChart(table_name, df) ==
    LET date_col == FirstColumn(df, {c \in Range(df.columns) : IsDateColumn(df, c)})
        num_col == FirstColumn(df, {c \in Range(df.columns) : IsNumericColumn(df, c)})
    IN  IF date_col # <<>> /\ date_col[1] # "" /\ num_col # <<>> /\ num_col[1] # ""
        THEN <<SuggestedChart(table_name \o ": " \o num_col[1] \o " over " \o date_col[1],
                              "line", table_name, date_col[1], num_col)>>
        ELSE <<>>

\* Mutant: the bar suggestion of a table comes before its histogram.
TableCharts_BarFirst(table_name, rows) ==
    LET df == to_dataframe(rows)
    IN  BarChart(table_name, df) \o HistChart(table_name, df) \o LineChart(table_name, df)

TableCharts(table_name, rows) ==
    LET df == to_dataframe(rows)
    IN  HistChart(table_name, df) \o BarChart(table_name, df) \o LineChart(table_name, df)

\* The loop over sample_rows.items(); a table without rows is skipped.
RECURSIVE ChartLoop(_, _)
ChartLoop(acc, rows_by_table) ==
    IF rows_by_table = <<>> THEN acc
    ELSE ChartLoop(IF Head(rows_by_table).v = <<>> THEN acc
                   ELSE acc \o TableCharts(Head(rows_by_table).k, Head(rows_by_table).v),
                   Tail(rows_by_table))

\* Mutant: returns every suggestion, without the cap.
suggest_charts_NoCap(rows_by_table) == ChartLoop(<<>>, rows_by_table)

suggest_charts(rows_by_table) == HeadN(ChartLoop(<<>>, rows_by_table), MaxCharts)

\* ------------------------------------------------------------ /api/generate
\* A DataIDEPayload; caveats = None is <<>>.
Payload(description, rows, schemas, summary, suggested, caveats) ==
    [dataset_description |-> description, sample_rows |-> rows, tables |-> schemas,
     profiling_summary |-> summary, suggested_charts |-> suggested, caveats |-> caveats]

\* The synthetic payload is fixed by the code up to the prompt.  Its schemas
\* are the declared ones; its seeded rows and their column statistics are
\* not expanded here (20 customers, 40 orders); its charts are the ones
\* suggest_charts gives for those rows.
SyntheticTables ==
    << Schema("customers", << Col("customer_id", "string"), Col("email", "string"),
                              Col("country", "string"), Col("signup_date", "date") >>),
       Schema("orders", << Col("order_id", "string"), Col("customer_id", "string"),
                           Col("order_date", "date"), Col("quantity", "int"),
                           Col("amount_gbp", "decimal") >>) >>
SyntheticRows == << E("customers", <<"20 rows">>), E("orders", <<"40 rows">>) >>
SyntheticProfile ==
    << E("customers", [row_count |-> 20, columns |-> <<"4 columns">>]),
       E("orders", [row_count |-> 40, columns |-> <<"5 columns">>]) >>
SyntheticCharts ==
    << SuggestedChart("customers.customer_id -- top categories", "bar", "customers",
                      "customer_id", <<>>),
       SuggestedChart("orders.quantity -- distribution", "hist", "orders", "quantity", <<>>),
       SuggestedChart("orders.customer_id -- top categories", "bar", "orders",
                      "customer_id", <<>>),
       SuggestedChart("orders: quantity over order_date", "line", "orders", "order_date",
                      <<"quantity">>) >>
SyntheticCaveat ==
    "Synthetic sample for plumbing. Set OPENAI_API_KEY to use GPT-5 for real generation."

synthetic_payload(user_prompt) ==
    Payload("Synthetic dataset for: " \o user_prompt
                \o ". UK D2C example with customers and orders.",
            SyntheticRows, SyntheticTables, SyntheticProfile, SyntheticCharts,
            <<SyntheticCaveat>>)

\* What the environment of a request holds: whether OPENAI_API_KEY is set,
\* how the call of the model ends, and the charts of the model's payload.
\* The model's sample rows and schemas are the variables sample_rows, tables.
Outcomes == {"ok", "import error", "api error", "invalid json", "validation error"}

maybe_gpt5_payload(user_prompt, sup, rows, schemas) ==
    IF ~sup.api_key THEN synthetic_payload(user_prompt)
    ELSE IF sup.outcome # "ok" THEN synthetic_payload(user_prompt)
    ELSE
    LET payload == Payload(sup.description, rows, schemas, sup.profiling, sup.charts, <<>>)
    IN  IF compute_profile_raises(payload.sample_rows, payload.tables)
        THEN synthetic_payload(user_prompt)
        ELSE [payload EXCEPT
                 !.profiling_summary = compute_profile(payload.sample_rows, payload.tables),
                 !.suggested_charts = IF @ = <<>> THEN suggest_charts(payload.sample_rows)
                                      ELSE @]

\* JSONResponse renders with allow_nan=False: a NaN in the content raises
\* ValueError.  The floats of a payload that can be NaN are its correlations.
HasNaN(summary) ==
    \E i \in 1..Len(summary) :
        /\ "correlation_pearson" \in DOMAIN summary[i].v
        /\ LET corr == summary[i].v.correlation_pearson
           IN  \E a \in 1..Len(corr) : \E b \in 1..Len(corr[a].v) : corr[a].v[b].v.nan
JSONResponseRaises(payload) == HasNaN(payload.profiling_summary)
JsonError == "Out of range float values are not JSON compliant"

FallbackCaveat(e) == "Fallback used due to error in /api/generate: " \o e

\* if not payload.profiling_summary: payload.profiling_summary = compute_profile(...)
EnsureProfile(payload) ==
    [payload EXCEPT !.profiling_summary =
                       IF @ = <<>> THEN compute_profile(payload.sample_rows, payload.tables)
                       ELSE @]

\* if not payload.suggested_charts: payload.suggested_charts = suggest_charts(...)
EnsureCharts(payload) ==
    [payload EXCEPT !.suggested_charts =
                       IF @ = <<>> THEN suggest_charts(payload.sample_rows) ELSE @]

\* JSONResponse(content=payload.model_dump()), and the except branch of generate.
Rendered(payload, fallback) ==
    IF JSONResponseRaises(payload)
    THEN [fallback EXCEPT !.caveats = @ \o <<FallbackCaveat(JsonError)>>]
    ELSE payload

\* The body of the response of generate(prompt).
generate(user_prompt, sup, rows, schemas) ==
    Rendered(EnsureCharts(EnsureProfile(maybe_gpt5_payload(user_prompt, sup, rows, schemas))),
             synthetic_payload(user_prompt))

\* ------------------------------------------------------------ src/main.py
\* The single-file application holds its own compute_profile, suggest_charts
\* and profile_to_rows.  Its helpers _to_df, _coerce_numeric and
\* _coerce_datetime make the pandas calls of to_dataframe, coerce_numeric and
\* coerce_datetime.
main_ColumnStats(df, t_schema, col) ==
    LET series == df.series[col]
        nn == Cardinality(NotNa(series))
        stats == << E("non_null", nn),
                    E("nulls", df.len - nn),
                    E("null_pct", IF df.len = 0 THEN Float(0, 1)
                                  ELSE Float(df.len - nn, IF df.len < 1 THEN 1 ELSE df.len)),
                    E("distinct", NUnique(series)) >>
        cs == IF t_schema = <<>> THEN <<>> ELSE t_schema[1].columns
        named == {i \in 1..Len(cs) : cs[i].name = col}
        hint == IF named = {} THEN <<>>
                ELSE <<Lower(cs[CHOOSE i \in named : \A j \in named : i <= j].dtype)>>
        num == coerce_numeric(series)
        dt == coerce_datetime(series)
        summary ==
            IF /\ \/ hint # <<>> /\ hint[1] \in {"int", "integer", "bigint", "float",
                                                 "double", "decimal", "number"}
                  \/ is_numeric_dtype(series)
               /\ NotNaAny(num)
            THEN Update(stats, NumericBlock(num))
            ELSE stats
        ranged ==
            IF /\ \/ hint # <<>> /\ hint[1] # "" /\ ContainsDate(hint[1])
                  \/ ContainsDate(Lower(col))
               /\ NotNaAny(dt)
            THEN Update(summary, DateBlock(dt))
            ELSE summary
        vc == TopValues(series)
    IN  IF series.dtype = "object" /\ Len(vc) > 0 THEN Put(ranged, "top_values", vc)
        ELSE ranged

main_compute_profile(rows_by_table, schemas) ==
    LET info(tname, rows) ==
            LET df == to_dataframe(rows)
                named == {i \in 1..Len(schemas) : schemas[i].name = tname}
                t_schema == IF named = {} THEN <<>>
                            ELSE <<schemas[CHOOSE i \in named : \A j \in named : j <= i]>>
                columns == [i \in 1..Len(df.columns) |->
                              E(df.columns[i], main_ColumnStats(df, t_schema, df.columns[i]))]
                df_num == NumericColumns(df)
            IN  IF df.len = 0 THEN [row_count |-> df.len, columns |-> <<>>]
                ELSE IF Len(df_num) >= 2
                     THEN [row_count |-> df.len, columns |-> columns,
                           correlation_pearson |-> CorrDict(df, df_num)]
                ELSE [row_count |-> df.len, columns |-> columns]
        loop[i \in 0..Len(rows_by_table)] ==
            IF i = 0 THEN <<>>
            ELSE Put(loop[i - 1], rows_by_table[i].k,
                     info(rows_by_table[i].k, rows_by_table[i].v))
    IN  loop[Len(rows_by_table)]

main_suggest_charts(rows_by_table) ==
    LET found(tname, rows) ==
            LET df == to_dataframe(rows)
                numeric == {c \in Range(df.columns) : NotNaAny(coerce_numeric(df.series[c]))}
                categories == {c \in Range(df.columns) :
                                 /\ df.series[c].dtype = "object"
                                 /\ NUniqueStr(df.series[c]) <= 30}
                dated == {c \in Range(df.columns) :
                            /\ ContainsDate(Lower(c))
                            /\ NotNaAny(coerce_datetime(df.series[c]))}
                hist_col == FirstColumn(df, numeric)
                bar_col == FirstColumn(df, categories)
                date_col == FirstColumn(df, dated)
                num_col == FirstColumn(df, numeric)
            IN  (IF hist_col = <<>> THEN <<>>
                 ELSE <<SuggestedChart(tname \o "." \o hist_col[1] \o " -- distribution",
                                       "hist", tname, hist_col[1], <<>>)>>)
                \o (IF bar_col = <<>> THEN <<>>
                    ELSE <<SuggestedChart(tname \o "." \o bar_col[1] \o " -- top categories",
                                          "bar", tname, bar_col[1], <<>>)>>)
                \o (IF date_col # <<>> /\ date_col[1] # "" /\ num_col # <<>> /\ num_col[1] # ""
                    THEN <<SuggestedChart(tname \o ": " \o num_col[1] \o " over " \o date_col[1],
                                          "line", tname, date_col[1], num_col)>>
                    ELSE <<>>)
        loop[i \in 0..Len(rows_by_table)] ==
            IF i = 0 THEN <<>>
            ELSE IF rows_by_table[i].v = <<>> THEN loop[i - 1]
            ELSE loop[i - 1] \o found(rows_by_table[i].k, rows_by_table[i].v)
    IN  HeadN(loop[Len(rows_by_table)], 6)

\* Mutant: the copy emits the mirrored pairs of the correlation matrix too.
main_profile_to_rows_Mirrored(prof) ==
    Concat([i \in 1..Len(prof) |->
              IF "correlation_pearson" \in DOMAIN prof[i].v
              THEN TableRecs(prof[i].k, [row_count |-> prof[i].v.row_count,
                                         columns |-> prof[i].v.columns])
                       \o CorrRecs_Mirrored(prof[i].k, prof[i].v.correlation_pearson)
              ELSE TableRecs(prof[i].k, prof[i].v)])

main_profile_to_rows(prof) ==
    LET of(tname, tinfo) ==
            LET cols == IF "columns" \in DOMAIN tinfo THEN tinfo.columns ELSE <<>>
                corr == IF "correlation_pearson" \in DOMAIN tinfo
                        THEN tinfo.correlation_pearson ELSE <<>>
                names == Keys(corr)
                pair(i, j) ==
                    IF j <= i THEN <<>>
                    ELSE IF HasKey(Get(corr, names[i]), names[j])
                         THEN <<Rec("correlation", tname, "", names[i] \o "~" \o names[j],
                                    Get(Get(corr, names[i]), names[j]))>>
                    ELSE <<>>
            IN  <<Rec("table", tname, "", "row_count",
                      IF "row_count" \in DOMAIN tinfo THEN tinfo.row_count ELSE 0)>>
                \o Concat([i \in 1..Len(cols) |->
                              [k \in 1..Len(cols[i].v) |->
                                  Rec("column", tname, cols[i].k, cols[i].v[k].k,
                                      cols[i].v[k].v)]])
                \o Concat([i \in 1..Len(names) |->
                              Concat([j \in 1..Len(names) |-> pair(i, j)])])
    IN  Concat([i \in 1..Len(prof) |-> of(prof[i].k, prof[i].v)])

\* ------------------------------------------------ the shared random source
\* The module random holds one generator for the whole process.  Its state
\* is the seed it was last given and the number of outputs drawn since; an
\* output is a function of that state, written as the state itself: the
\* outputs of two different states of the generator seeded with 42 differ
\* (the first customer ids are C60227680, C40250165, C25808631).
Output(state) == <<state.seed, state.pos>>

\* The rows of one call that no other call disturbs: random.seed(42), then
\* one draw after the other (_rid("C"), _rid("O"), random.random()).  The
\* 100 draws of the code are cut down to MaxDraws.
SeededRows == [i \in 1..MaxDraws |-> Output([seed |-> 42, pos |-> i - 1])]

\* ------------------------------------------- /api/plot.png, /api/corr.png
\* pyplot keeps every open figure in a registry under its number; subplots
\* opens the figure with the next number, plt.close(fig) takes fig out of the
\* registry.  fig.clf() empties a figure and leaves it in the registry.
subplots(figs) ==
    IF figs = {} THEN 1 ELSE (CHOOSE n \in figs : \A k \in figs : k <= n) + 1

\* Response(buf.getvalue(), media_type="image/png"): the image is modelled by
\* what it shows, the title of the plot or the text of the placeholder.
PngResponse(placeholder, text) ==
    [media_type |-> "image/png", placeholder |-> placeholder, text |-> text]

\* if not x or x not in df.columns: the first column of a numeric dtype, or
\* the first column.
DefaultX(df, x) ==
    IF x = "" \/ x \notin Range(df.columns)
    THEN LET numeric == FirstColumn(df, {c \in Range(df.columns) :
                                            is_numeric_dtype(df.series[c])})
         IN  IF numeric # <<>> THEN numeric[1] ELSE df.columns[1]
    ELSE x

\* The try block of plot_png: it comes to an exception with its message, or
\* to the figure drawn under its title.  fault says that a call into the
\* plotting library raises (s.plot, set_title, tight_layout, savefig).
PlotBody(rows, table, kind, x0, y, fault) ==
    LET Raise(message) == [raised |-> TRUE, text |-> message]
        Drawn(title) == [raised |-> FALSE, text |-> title]
    IN
    IF rows = <<>> THEN Raise("No rows for table '" \o table \o "'")
    ELSE
    LET df == to_dataframe(rows)
        x == DefaultX(df, x0)
        has_y == y # <<>> /\ y[1] # ""
        numeric(c) == coerce_numeric(df.series[c])
        dates(c) == coerce_datetime(df.series[c])
        plotted == IF fault THEN Raise("no numeric data to plot")
                   ELSE Drawn(table \o "." \o x \o " (" \o kind \o ")")
        KeyError == Raise("'" \o y[1] \o "'")
    IN  CASE kind = "hist" ->
               IF ~NotNaAny(numeric(x))
               THEN Raise("Column '" \o x \o "' has no numeric data")
               ELSE plotted
          [] kind = "bar" -> plotted
          [] kind = "line" ->
               IF ~has_y THEN plotted
               ELSE IF y[1] \notin Range(df.columns) THEN KeyError
               ELSE IF NotNa(dates(x)) \cap NotNa(numeric(y[1])) = {}
                    THEN Raise("No valid date/number pairs")
               ELSE plotted
          [] kind = "scatter" /\ has_y ->
               IF y[1] \notin Range(df.columns) THEN KeyError
               ELSE IF NotNa(numeric(x)) \cap NotNa(numeric(y[1])) = {}
                    THEN Raise("No numeric pairs for scatter")
               ELSE plotted
          [] kind = "box" ->
               IF ~NotNaAny(numeric(x))
               THEN Raise("No numeric data for boxplot '" \o x \o "'")
               ELSE plotted
          [] OTHER -> plotted

\* The try block of corr_png.
CorrBody(rows, table, fault) ==
    LET Raise(message) == [raised |-> TRUE, text |-> message]
    IN  IF rows = <<>> THEN Raise("No rows for table '" \o table \o "'")
        ELSE IF Len(NumericColumns(to_dataframe(rows))) < 2
             THEN Raise("Not enough numeric columns for correlation")
        ELSE IF fault THEN Raise("no numeric data to plot")
        ELSE [raised |-> FALSE, text |-> table \o " -- Pearson correlation"]

\* Mutant: the handler has no except branch, the exception leaves it.
Handler_NoExcept(figs, body, label) ==
    LET fig == subplots(figs)
        opened == figs \cup {fig}
    IN  IF ~body.raised
        THEN [response |-> PngResponse(FALSE, body.text), figures |-> opened \ {fig}]
        ELSE [response |-> <<>>, figures |-> opened \ {fig}]

\* fig, ax = plt.subplots(...); try: ... return Response(...);
\* except Exception as e: fig.clf(); fig, ax = plt.subplots(...); ...
\* return Response(...); finally: plt.close(fig).  In the except branch the
\* name fig is bound again, so finally closes the figure of the placeholder.
Handler(figs, body, label) ==
    LET fig == subplots(figs)
        opened == figs \cup {fig}
        error_fig == subplots(opened)
    IN  IF ~body.raised
        THEN [response |-> PngResponse(FALSE, body.text), figures |-> opened \ {fig}]
        ELSE [response |-> PngResponse(TRUE, label \o body.text),
              figures |-> (opened \cup {error_fig}) \ {error_fig}]

\* rows = payload.sample_rows.get(table, []), then the handler.
plot_png(figs, payload, table, kind, x, y, fault) ==
    LET rows == IF HasKey(payload.sample_rows, table)
                THEN Get(payload.sample_rows, table) ELSE <<>>
    IN  Handler(figs, PlotBody(rows, table, kind, x, y, fault), "Plot error: ")

corr_png(figs, payload, table, fault) ==
    LET rows == IF HasKey(payload.sample_rows, table)
                THEN Get(payload.sample_rows, table) ELSE <<>>
    IN  Handler(figs, CorrBody(rows, table, fault), "Heatmap error: ")

\* ------------------------------------------------------------------ inputs
Nums == {Num(i) : i \in 1..MaxNum}

\* All row dicts with one of the key sequences, cells drawn per key.
RowsOver(keyseqs, cells) ==
    UNION {{[i \in 1..Len(ks) |-> E(ks[i], f[i])] :
              f \in {g \in [1..Len(ks) -> UNION {cells[c] : c \in DOMAIN cells}] :
                        \A i \in 1..Len(ks) : g[i] \in cells[ks[i]]}} :
           ks \in keyseqs}

\* One column of mixed scalars, rows that may lack the key, with schema hints.
RichCells == {None} \cup Nums \cup {Text("1"), Text("2"), Text("x")}
OneColumn ==
    [rows |-> RowsOver({<<>>, <<"a">>}, [a |-> RichCells]),
     maxrows |-> MaxRows,
     schemas |-> { <<>>,
                   <<Schema("t", <<>>)>>,
                   <<Schema("t", <<Col("a", "INT")>>)>>,
                   <<Schema("t", <<Col("a", "string"), Col("a", "int")>>)>> }]

\* Two columns whose keys come in either order or are missing.
TwoColumns ==
    [rows |-> RowsOver({<<"a">>, <<"a", "b">>, <<"b", "a">>},
                       [a |-> {None} \cup Nums, b |-> {Num(1), Num(2)}]),
     maxrows |-> MaxWideRows,
     schemas |-> { <<>> }]

\* Two columns of numbers, as many rows as the one-column tables.
PairColumns ==
    [rows |-> RowsOver({<<"a", "b">>}, [a |-> Nums, b |-> Nums]),
     maxrows |-> MaxRows,
     schemas |-> { <<>> }]

\* Three columns: numbers, numbers with nulls, strings.
ThreeColumns ==
    [rows |-> RowsOver({<<"a", "b", "c">>},
                       [a |-> {Num(1), Num(2)}, b |-> {None, Num(1)},
                        c |-> {Text("1"), Text("2"), Text("x")}]),
     maxrows |-> MaxWideRows,
     schemas |-> { <<>>, <<Schema("t", <<Col("c", "number")>>)>> }]

\* A date column: by its name, or by its hint.
DateCells == {None, Text("2025-01-01"), Text("2025-03-15"), Text("bad-date")}
DateColumn ==
    [rows |-> RowsOver({<<"Order_Date">>, <<"when">>},
                       [Order_Date |-> DateCells, when |-> DateCells]),
     maxrows |-> MaxRows,
     schemas |-> { <<>>, <<Schema("t", <<Col("when", "Date")>>)>> }]

\* A column of strings, two of them spellings of the same number.
TextColumn ==
    [rows |-> RowsOver({<<"a">>}, [a |-> {None, Text("1"), Text("1.0"), Text("x")}]),
     maxrows |-> MaxWideRows,
     schemas |-> { <<>>, <<Schema("t", <<Col("a", "float")>>)>> }]

\* A column of booleans.
BoolColumn ==
    [rows |-> RowsOver({<<"flag">>}, [flag |-> {Bool(TRUE), Bool(FALSE)}]),
     maxrows |-> MaxRows,
     schemas |-> { <<>>, <<Schema("t", <<Col("flag", "bool")>>)>> }]

Families == {OneColumn, TwoColumns, PairColumns, ThreeColumns, DateColumn, TextColumn}

\* Several tables, some without rows, some without schema.
FewRows == { <<>>, << <<E("a", Num(1)), E("b", Num(1))>> >>,
             << <<E("a", Num(1)), E("b", Num(1))>>, <<E("a", Num(2)), E("b", Num(1))>> >> }
ManySchemas ==
    { <<>>, <<Schema("t", <<Col("a", "int")>>)>>,
      <<Schema("v", <<Col("a", "int")>>), Schema("u", <<>>)>> }

\* Rows for the chart suggester: no key, one column "a", or a date-named
\* column followed by "a".
ChartRow ==
    RowsOver({<<>>, <<"a">>}, [a |-> {None, Num(1), Text("1"), Text("x")}])
        \cup RowsOver({<<"Order_Date", "a">>},
                      [Order_Date |-> {Text("2025-01-01"), Text("bad-date")},
                       a |-> {None, Num(1), Text("x")}])

\* Tables of at most one row, for mappings of several tables.
ChartTable ==
    {<<>>} \cup {<<row>> : row \in
                    RowsOver({<<"a">>}, [a |-> {Num(1), Text("1"), Text("x")}])
                        \cup RowsOver({<<"Order_Date", "a">>},
                                      [Order_Date |-> {Text("2025-01-01"), Text("bad-date")},
                                       a |-> {Num(1), Text("x")}])}
ChartNames == <<"t", "u", "v", "w", "z">>

\* A table of five rows with a numeric column, a string column of five
\* different values and a date-named column of date strings, the three
\* keys in any order.
Categories == <<"north", "south", "east", "west", "centre">>
ScenarioOrders ==
    {ks \in [1..3 -> {"amount", "category", "order_date"}] :
        \A i, j \in 1..3 : i # j => ks[i] # ks[j]}
ScenarioCell(key, r, amounts, dates) ==
    CASE key = "amount" -> amounts[r]
      [] key = "category" -> Text(Categories[r])
      [] OTHER -> dates[r]
ScenarioRows(ks, amounts, dates) ==
    [r \in 1..5 |-> [i \in 1..3 |-> E(ks[i], ScenarioCell(ks[i], r, amounts, dates))]]
ScenarioAmounts == {[r \in 1..5 |-> Num(1)], [r \in 1..5 |-> Num((r % 2) + 1)],
                    [r \in 1..5 |-> IF r = 1 THEN None ELSE Num(2)]}
ScenarioDates ==
    {[r \in 1..5 |-> Text("2025-01-01")],
     [r \in 1..5 |-> IF r < 3 THEN Text("2025-03-15") ELSE Text("2025-01-01")]}

\* ----------------------------------------------------------- state machine
\* No figure is open, no plot was requested, the shared random source is as
\* the import left it and no worker thread is inside synthetic_payload.
Quiet ==
    /\ figures = {}
    /\ request = [seq |-> 0, route |-> "", table |-> "", kind |-> "", x |-> "",
                  y |-> <<>>, fault |-> FALSE]
    /\ rng = [seed |-> 0, pos |-> 0]
    /\ workers = <<>>

\* No request to /api/generate is under way.
NoRequest ==
    /\ prompt = ""
    /\ supplier = [api_key |-> FALSE, outcome |-> "ok", description |-> "",
                   profiling |-> <<>>, charts |-> <<>>]
    /\ response = <<>>
    /\ Quiet

InitOneTable ==
    \E fam \in Families : \E n \in 0..fam.maxrows :
        \E rows \in [1..n -> fam.rows] : \E sch \in fam.schemas :
            /\ sample_rows = <<E("t", rows)>>
            /\ tables = sch

InitTwoTables ==
    \E r1 \in FewRows, r2 \in FewRows, sch \in ManySchemas :
        /\ sample_rows = <<E("t", r1), E("u", r2)>>
        /\ tables = sch

Init ==
    /\ (InitOneTable \/ InitTwoTables)
    /\ profile = <<>>
    /\ flat = <<>>
    /\ charts = <<>>
    /\ NoRequest
    /\ pc = "start"

\* Mutant: compute_profile empties the row lists it was given while it
\* profiles them.
ComputeProfile_Consuming ==
    /\ pc = "start"
    /\ ~compute_profile_raises(sample_rows, tables)
    /\ profile' = compute_profile(sample_rows, tables)
    /\ sample_rows' = [i \in 1..Len(sample_rows) |-> E(sample_rows[i].k, <<>>)]
    /\ pc' = "profiled"
    /\ UNCHANGED <<tables, flat, charts, prompt, supplier, response,
                   figures, request, rng, workers>>

\* prof = compute_profile(payload.sample_rows, payload.tables)
ComputeProfile ==
    /\ pc = "start"
    /\ IF compute_profile_raises(sample_rows, tables)
       THEN pc' = "raised" /\ UNCHANGED profile
       ELSE profile' = compute_profile(sample_rows, tables) /\ pc' = "profiled"
    /\ UNCHANGED <<sample_rows, tables, flat, charts, prompt, supplier, response,
                   figures, request, rng, workers>>

\* rows = profile_to_rows(prof)
ProfileToRows ==
    /\ pc = "profiled"
    /\ flat' = profile_to_rows(profile)
    /\ pc' = "flattened"
    /\ UNCHANGED <<sample_rows, tables, profile, charts, prompt, supplier, response,
                   figures, request, rng, workers>>

Next == ComputeProfile \/ ProfileToRows

Spec == Init /\ [][Next]_vars

\* The chart suggester on its own: charts = suggest_charts(payload.sample_rows)
ChartInitTables ==
    \E n \in 0..MaxTables : \E ts \in [1..n -> ChartTable] :
        sample_rows = [i \in 1..n |-> E(ChartNames[i], ts[i])]

ChartInitRows ==
    \E n \in 2..MaxWideRows : \E rows \in [1..n -> ChartRow] :
        sample_rows = <<E("t", rows)>>

ChartInitScenario ==
    \E ks \in ScenarioOrders, amounts \in ScenarioAmounts, dates \in ScenarioDates :
        sample_rows = <<E("orders", ScenarioRows(ks, amounts, dates))>>

\* One text column of more different values than a bar chart takes, next to
\* a column of few.
ChartInitWide ==
    \E ks \in {<<"code">>, <<"code", "a">>, <<"a", "code">>} :
        sample_rows =
            <<E("t", [r \in 1..(MaxCategories + 1) |->
                        [i \in 1..Len(ks) |->
                            E(ks[i], IF ks[i] = "code" THEN Text("v" \o ToString(r))
                                     ELSE Text("x"))]])>>

ChartInit ==
    /\ (ChartInitTables \/ ChartInitRows \/ ChartInitScenario \/ ChartInitWide)
    /\ tables = <<>>
    /\ profile = <<>>
    /\ flat = <<>>
    /\ charts = <<>>
    /\ NoRequest
    /\ pc = "start"

SuggestCharts ==
    /\ pc = "start"
    /\ charts' = suggest_charts(sample_rows)
    /\ pc' = "charted"
    /\ UNCHANGED <<sample_rows, tables, profile, flat, prompt, supplier, response,
                   figures, request, rng, workers>>

ChartNext == SuggestCharts

ChartSpec == ChartInit /\ [][ChartNext]_vars

\* The two functions of the core, each called on the same sample rows, which
\* hold nulls, booleans, numbers and text.
CoreInit ==
    /\ \/ \E fam \in {OneColumn, TwoColumns, BoolColumn, DateColumn} :
             \E n \in 0..fam.maxrows :
                \E rows \in [1..n -> fam.rows] : \E sch \in fam.schemas :
                    /\ sample_rows = <<E("t", rows)>>
                    /\ tables = sch
       \/ ChartInitRows /\ tables = <<>>
       \/ /\ \E row \in RowsOver({<<"", "Order_Date">>, <<"Order_Date", "">>},
                                  ("" :> {Num(1), Text("x")})
                                      @@ ("Order_Date" :> {Text("2025-01-01"),
                                                           Text("bad-date")})) :
                sample_rows = <<E("t", <<row>>)>>
          /\ tables = <<>>
    /\ profile = <<>>
    /\ flat = <<>>
    /\ charts = <<>>
    /\ NoRequest
    /\ pc = "start"

CoreNext == ComputeProfile \/ SuggestCharts \/ ProfileToRows

CoreSpec == CoreInit /\ [][CoreNext]_vars

\* A request to /api/generate: the key may be missing, the call of the model
\* may fail in each way, or the model answers with a payload.
Prompts == {"orders", "shop"}
ModelCharts ==
    { <<>>,
      <<SuggestedChart("t by a", "scatter", "t", "a", <<"b">>)>>,
      [i \in 1..(MaxCharts + 1) |-> SuggestedChart("t by a", "scatter", "t", "a", <<"b">>)] }
\* The profiling summary of the model's own payload: none, or one that says
\* what no profile of the rows says.
ModelProfiles == { <<>>, <<E("t", [row_count |-> 7, columns |-> <<>>])>> }

GenInitNoKey ==
    /\ supplier = [api_key |-> FALSE, outcome |-> "ok", description |-> "",
                   profiling |-> <<>>, charts |-> <<>>]
    /\ sample_rows = <<>>
    /\ tables = <<>>

GenInitFailure ==
    /\ \E o \in Outcomes \ {"ok"} :
          supplier = [api_key |-> TRUE, outcome |-> o, description |-> "",
                      profiling |-> <<>>, charts |-> <<>>]
    /\ sample_rows = <<>>
    /\ tables = <<>>

GenInitAnswer ==
    /\ \E ps \in ModelProfiles, cs \in ModelCharts :
          supplier = [api_key |-> TRUE, outcome |-> "ok", description |-> "model",
                      profiling |-> ps, charts |-> cs]
    /\ \/ sample_rows = <<>> /\ tables = <<>>
       \/ \E fam \in {BoolColumn, PairColumns} : \E n \in 0..MaxWideRows :
             \E rows \in [1..n -> fam.rows] : \E sch \in fam.schemas :
                 /\ sample_rows = <<E("t", rows)>>
                 /\ tables = sch

GenInit ==
    /\ prompt \in Prompts
    /\ (GenInitNoKey \/ GenInitFailure \/ GenInitAnswer)
    /\ profile = <<>>
    /\ flat = <<>>
    /\ charts = <<>>
    /\ response = <<>>
    /\ Quiet
    /\ pc = "start"

Generate ==
    /\ pc = "start"
    /\ response' = <<generate(prompt, supplier, sample_rows, tables)>>
    /\ pc' = "responded"
    /\ UNCHANGED <<sample_rows, tables, profile, flat, charts, prompt, supplier,
                   figures, request, rng, workers>>

GenNext == Generate

GenSpec == GenInit /\ [][GenNext]_vars

\* Requests to /api/plot.png and /api/corr.png, one after the other, against
\* the payload of a model that answers with one table "t".
\* The query parameters of a request; an unknown table and a fault of the
\* plotting library come with the default x and y.
PlotRequests ==
    {r \in [table : {"t", "nope"},
            kind : {"hist", "bar", "line", "scatter", "box", "pie"},
            x : {"", "Order_Date"}, y : {<<>>, <<"a">>, <<"zz">>}, fault : BOOLEAN] :
        (r.table = "nope" \/ r.fault) => (r.x = "" /\ r.y = <<>>)}

PlotInit ==
    /\ prompt = "orders"
    /\ supplier = [api_key |-> TRUE, outcome |-> "ok", description |-> "model",
                   profiling |-> <<>>, charts |-> <<>>]
    /\ \/ sample_rows = <<E("t", <<>>)>>
       \/ \E row \in RowsOver({<<"Order_Date", "a">>},
                               [Order_Date |-> {Text("2025-01-01"), Text("bad-date")},
                                a |-> {None, Num(1), Text("x")}])
                        \cup RowsOver({<<"a", "b">>}, [a |-> {Num(1), Num(2)},
                                                      b |-> {Num(1), Num(2)}]) :
             sample_rows = <<E("t", <<row>>)>>
    /\ tables = <<>>
    /\ profile = <<>>
    /\ flat = <<>>
    /\ charts = <<>>
    /\ response = <<>>
    /\ Quiet
    /\ pc = "start"

PlotPng ==
    /\ pc \in {"start", "plotted"}
    /\ request.seq < MaxRequests
    /\ \E payload \in {maybe_gpt5_payload(prompt, supplier, sample_rows, tables)} :
       \E r \in PlotRequests :
          LET out == plot_png(figures, payload, r.table, r.kind, r.x, r.y, r.fault)
          IN  /\ request' = [seq |-> request.seq + 1, route |-> "/api/plot.png",
                              table |-> r.table, kind |-> r.kind, x |-> r.x, y |-> r.y,
                              fault |-> r.fault]
              /\ IF out.response = <<>>
                 THEN pc' = "raised" /\ UNCHANGED response
                 ELSE response' = <<out.response>> /\ pc' = "plotted"
              /\ figures' = out.figures
    /\ UNCHANGED <<sample_rows, tables, profile, flat, charts, prompt, supplier,
                   rng, workers>>

CorrPng ==
    /\ pc \in {"start", "plotted"}
    /\ request.seq < MaxRequests
    /\ \E payload \in {maybe_gpt5_payload(prompt, supplier, sample_rows, tables)} :
       \E table \in {"t", "nope"}, fault \in BOOLEAN :
          LET out == corr_png(figures, payload, table, fault)
          IN  /\ request' = [seq |-> request.seq + 1, route |-> "/api/corr.png",
                              table |-> table, kind |-> "", x |-> "", y |-> <<>>,
                              fault |-> fault]
              /\ IF out.response = <<>>
                 THEN pc' = "raised" /\ UNCHANGED response
                 ELSE response' = <<out.response>> /\ pc' = "plotted"
              /\ figures' = out.figures
    /\ UNCHANGED <<sample_rows, tables, profile, flat, charts, prompt, supplier,
                   rng, workers>>

PlotNext == PlotPng \/ CorrPng

PlotSpec == PlotInit /\ [][PlotNext]_vars

\* Worker threads of the server inside synthetic_payload.  The handlers are
\* plain functions, which the server runs in a pool of threads; a thread may
\* be preempted between any two calls of the random module.  Before the
\* first call the generator is in any state that earlier calls left.
RandInit ==
    /\ \E s \in {0, 7, 42}, n \in 0..MaxDraws : rng = [seed |-> s, pos |-> n]
    /\ workers = [w \in 1..MaxWorkers |-> [at |-> "idle", rows |-> <<>>]]
    /\ sample_rows = <<>>
    /\ tables = <<>>
    /\ profile = <<>>
    /\ flat = <<>>
    /\ charts = <<>>
    /\ prompt = ""
    /\ supplier = [api_key |-> FALSE, outcome |-> "ok", description |-> "",
                   profiling |-> <<>>, charts |-> <<>>]
    /\ response = <<>>
    /\ figures = {}
    /\ request = [seq |-> 0, route |-> "", table |-> "", kind |-> "", x |-> "",
                  y |-> <<>>, fault |-> FALSE]
    /\ pc = "start"

\* random.seed(42), the first statement of synthetic_payload.
Seed(w) ==
    /\ workers[w].at = "idle"
    /\ rng' = [seed |-> 42, pos |-> 0]
    /\ workers' = [workers EXCEPT ![w] = [at |-> "drawing", rows |-> <<>>]]
    /\ UNCHANGED <<sample_rows, tables, profile, flat, charts, prompt, supplier,
                   response, pc, figures, request>>

\* One draw of the list comprehensions: _rid(...) or random.random().
Draw(w) ==
    /\ workers[w].at = "drawing"
    /\ Len(workers[w].rows) < MaxDraws
    /\ workers' = [workers EXCEPT ![w].rows = Append(@, Output(rng))]
    /\ rng' = [rng EXCEPT !.pos = @ + 1]
    /\ UNCHANGED <<sample_rows, tables, profile, flat, charts, prompt, supplier,
                   response, pc, figures, request>>

\* return DataIDEPayload(..., sample_rows={"customers": customers, "orders": orders}, ...)
Return(w) ==
    /\ workers[w].at = "drawing"
    /\ Len(workers[w].rows) = MaxDraws
    /\ workers' = [workers EXCEPT ![w].at = "done"]
    /\ UNCHANGED <<sample_rows, tables, profile, flat, charts, prompt, supplier,
                   response, pc, figures, request, rng>>

RandNext == \E w \in 1..MaxWorkers : Seed(w) \/ Draw(w) \/ Return(w)

RandSpec == RandInit /\ [][RandNext]_vars

\* ================================================================== claims
\* What the claims read off a state: the tables of the input, their raw
\* columns, and the profile computed for them.
Profiled == pc \in {"profiled", "flattened"}
Flattened == pc = "flattened"

TableNames == KeySet(sample_rows)
RowsOf(t) == Get(sample_rows, t)
InfoOf(t) == Get(profile, t)
NonEmpty == {t \in TableNames : Len(RowsOf(t)) >= 1}
ColumnsOf(t) == UNION {KeySet(RowsOf(t)[r]) : r \in 1..Len(RowsOf(t))}
StatsOf(t, c) == Get(InfoOf(t).columns, c)
HintOf(t, c) == HintedDtype(SchemaFor(tables, t), c)

\* The raw values of column c that coerce to a number.
CoercedOf(t, c) ==
    {ToNumeric(Get(RowsOf(t)[r], c)).n :
        r \in {q \in 1..Len(RowsOf(t)) :
                 HasKey(RowsOf(t)[q], c) /\ ~IsNull(ToNumeric(Get(RowsOf(t)[q], c)))}}
Coercible(t, c) == CoercedOf(t, c) # {}

NumericKeys == {"min", "p25", "p50", "p75", "max", "mean", "std"}
HasNumericBlock(t, c) == NumericKeys \subseteq KeySet(StatsOf(t, c))
HasCorr(t) == "correlation_pearson" \in DOMAIN InfoOf(t)

\* C1: in the profile of a table with at least one row every column of the
\* table has a profile, with non_null + nulls = row_count and
\* null_pct = nulls / row_count.
C1_NullAccounting ==
    Profiled =>
        \A t \in NonEmpty :
            /\ KeySet(InfoOf(t).columns) = ColumnsOf(t)
            /\ \A c \in ColumnsOf(t) :
                  LET st == StatsOf(t, c)
                      np == Get(st, "null_pct")
                  IN  /\ Get(st, "non_null") + Get(st, "nulls") = InfoOf(t).row_count
                      /\ ~np.nan /\ np.root = 1
                      /\ np.num * InfoOf(t).row_count = Get(st, "nulls") * np.den

\* A profiled column with nulls, some of them from rows lacking the key, and
\* non-null values.
C1_Witness ==
    /\ Profiled
    /\ \E t \in NonEmpty : \E c \in ColumnsOf(t) :
          /\ Get(StatsOf(t, c), "nulls") >= 2
          /\ Get(StatsOf(t, c), "non_null") >= 1
          /\ \E r \in 1..Len(RowsOf(t)) : ~HasKey(RowsOf(t)[r], c)

\* C2: every column of a non-empty table with a value that coerces to a
\* number gets the numeric block, whatever the hint; without any schema the
\* column a = ["1", "2", null] gets min = 1, max = 2, mean = 1.5.
C2_NumericBlockWheneverCoercible ==
    Profiled =>
        \A t \in NonEmpty : \A c \in ColumnsOf(t) :
            Coercible(t, c) => HasNumericBlock(t, c)

\* C3: a column none of whose values coerces to a number has no key of the
\* numeric block, also under a numeric schema hint.
C3_NoBlockWithoutNumbers ==
    Profiled =>
        \A t \in NonEmpty : \A c \in ColumnsOf(t) :
            ~Coercible(t, c) => KeySet(StatsOf(t, c)) \cap NumericKeys = {}

\* A profiled column hinted numeric, with non-null values, none of them a number.
C3_Witness ==
    /\ Profiled
    /\ \E t \in NonEmpty : \E c \in ColumnsOf(t) :
          /\ ~Coercible(t, c)
          /\ HintOf(t, c) # <<>> /\ HintOf(t, c)[1] \in NumericHints
          /\ Get(StatsOf(t, c), "non_null") >= 1

\* C4: a table without rows is profiled as exactly {row_count: 0, columns: {}},
\* with or without a schema of its name.
C4_EmptyTable ==
    Profiled =>
        \A t \in TableNames \ NonEmpty :
            /\ HasKey(profile, t)
            /\ InfoOf(t) = [row_count |-> 0, columns |-> <<>>]

\* A profiled table without rows that has a schema, next to one with rows.
C4_Witness ==
    /\ Profiled
    /\ \E t \in TableNames \ NonEmpty : SchemaFor(tables, t) # <<>>
    /\ NonEmpty # {}

\* C5: in every numeric block min <= p25 <= p50 <= p75 <= max, min and max
\* being the least and the greatest of the values that coerced to a number.
C5_PercentileOrder ==
    Profiled =>
        \A t \in NonEmpty : \A c \in ColumnsOf(t) :
            LET st == StatsOf(t, c) IN
            HasKey(st, "min") =>
                /\ HasNumericBlock(t, c)
                /\ PyLe(Get(st, "min"), Get(st, "p25"))
                /\ PyLe(Get(st, "p25"), Get(st, "p50"))
                /\ PyLe(Get(st, "p50"), Get(st, "p75"))
                /\ PyLe(Get(st, "p75"), Get(st, "max"))
                /\ Get(st, "min").den = 1 /\ Get(st, "max").den = 1
                /\ Get(st, "min").num \in CoercedOf(t, c)
                /\ Get(st, "max").num \in CoercedOf(t, c)
                /\ \A x \in CoercedOf(t, c) : Get(st, "min").num <= x /\ x <= Get(st, "max").num

\* A numeric block over a column that also holds a value that is no number,
\* its values out of order in the rows and its quartiles all different.
C5_Witness ==
    /\ Profiled
    /\ \E t \in NonEmpty : \E c \in ColumnsOf(t) :
          LET st == StatsOf(t, c) IN
          /\ HasKey(st, "min")
          /\ ~PyLe(Get(st, "p25"), Get(st, "min"))
          /\ ~PyLe(Get(st, "p50"), Get(st, "p25"))
          /\ ~PyLe(Get(st, "max"), Get(st, "p75"))
          /\ Get(st, "non_null") > Cardinality(CoercedOf(t, c))
          /\ \E r \in 1..(Len(RowsOf(t)) - 1) :
                /\ HasKey(RowsOf(t)[r], c) /\ HasKey(RowsOf(t)[r + 1], c)
                /\ Get(RowsOf(t)[r], c).tag = "int" /\ Get(RowsOf(t)[r + 1], c).tag = "int"
                /\ Get(RowsOf(t)[r], c).n > Get(RowsOf(t)[r + 1], c).n

CorrOf(t) == InfoOf(t).correlation_pearson
WithCorr == {t \in NonEmpty : HasCorr(t)}
NumericColumnsOf(t) == {c \in ColumnsOf(t) : Coercible(t, c)}

\* C6: a correlation block is symmetric, corr[a][b] == corr[b][a] for all its
\* columns a and b, and every outer key is an inner key of every row.
C6_CorrSymmetric ==
    Profiled =>
        \A t \in WithCorr : \A a \in KeySet(CorrOf(t)) : \A b \in KeySet(CorrOf(t)) :
            /\ HasKey(Get(CorrOf(t), a), b)
            /\ HasKey(Get(CorrOf(t), b), a)
            /\ PyEq(Get(Get(CorrOf(t), a), b), Get(Get(CorrOf(t), b), a))

\* C7: in a correlation block corr[c][c] == 1.0 for every column c, also for a
\* column of identical values or with one non-null value.
C7_CorrDiagonalOne ==
    Profiled =>
        \A t \in WithCorr : \A c \in KeySet(CorrOf(t)) :
            PyEq(Get(Get(CorrOf(t), c), c), Float(1, 1))

\* C8: a non-empty table has a correlation block iff at least two of its
\* columns have a value that coerces to a number, and then the block's
\* columns, outer and inner, are exactly those columns.
C8_CorrPresence ==
    Profiled =>
        \A t \in NonEmpty :
            /\ HasCorr(t) <=> Cardinality(NumericColumnsOf(t)) >= 2
            /\ HasCorr(t) =>
                  /\ KeySet(CorrOf(t)) = NumericColumnsOf(t)
                  /\ Len(CorrOf(t)) = Cardinality(NumericColumnsOf(t))
                  /\ \A i \in 1..Len(CorrOf(t)) :
                        /\ KeySet(CorrOf(t)[i].v) = NumericColumnsOf(t)
                        /\ Len(CorrOf(t)[i].v) = Cardinality(NumericColumnsOf(t))

\* A table of three columns, two of them numeric through coercion of strings
\* or numbers, with a block.
C8_Witness ==
    /\ Profiled
    /\ \E t \in WithCorr :
          /\ Cardinality(ColumnsOf(t)) = 3
          /\ Cardinality(NumericColumnsOf(t)) = 2

\* A table with exactly one numeric column among several, hence no block.
C8_WitnessSingle ==
    /\ Profiled
    /\ \E t \in NonEmpty :
          /\ Cardinality(ColumnsOf(t)) >= 2
          /\ Cardinality(NumericColumnsOf(t)) = 1
          /\ ~HasCorr(t)

FlatAt(level, t, c, metric) ==
    {i \in 1..Len(flat) :
        /\ flat[i].level = level /\ flat[i].table = t
        /\ flat[i].column = c /\ flat[i].metric = metric}

\* C9: the flattened rows hold, for each table, exactly one 'table' record
\* (metric row_count) and exactly one 'column' record per (column, stat key)
\* of the profile, carrying the stat's value; there are no other 'table' or
\* 'column' records.
C9_FlattenComplete ==
    Flattened =>
        /\ \A t \in KeySet(profile) :
              /\ Cardinality({i \in 1..Len(flat) :
                                flat[i].level = "table" /\ flat[i].table = t}) = 1
              /\ \A i \in FlatAt("table", t, "", "row_count") :
                    flat[i].value = InfoOf(t).row_count
              /\ \A c \in KeySet(InfoOf(t).columns) : \A key \in KeySet(StatsOf(t, c)) :
                    /\ Cardinality(FlatAt("column", t, c, key)) = 1
                    /\ \A i \in FlatAt("column", t, c, key) :
                          flat[i].value = Get(StatsOf(t, c), key)
        /\ \A i \in 1..Len(flat) :
              /\ flat[i].level = "table" =>
                    /\ flat[i].table \in KeySet(profile)
                    /\ flat[i].metric = "row_count" /\ flat[i].column = ""
              /\ flat[i].level = "column" =>
                    /\ flat[i].table \in KeySet(profile)
                    /\ flat[i].column \in KeySet(InfoOf(flat[i].table).columns)
                    /\ flat[i].metric \in KeySet(StatsOf(flat[i].table, flat[i].column))

\* Two tables flattened, one without rows, one with columns.
C9_Witness ==
    /\ Flattened
    /\ Cardinality(KeySet(profile)) = 2
    /\ \E t \in KeySet(profile) : InfoOf(t).columns = <<>>
    /\ \E t \in KeySet(profile) : Len(InfoOf(t).columns) >= 2

\* A flattened column profile with the numeric block and top_values.
C9_WitnessBlocks ==
    /\ Flattened
    /\ \E t \in NonEmpty : \E c \in ColumnsOf(t) :
          /\ HasNumericBlock(t, c)
          /\ FlatAt("column", t, c, "top_values") # {}
          /\ FlatAt("column", t, c, "std") # {}

CorrRecsOf(t) == {i \in 1..Len(flat) : flat[i].level = "correlation" /\ flat[i].table = t}

\* C10: for a correlation block over n columns the flattened rows hold exactly
\* one 'correlation' record per pair i < j of the block's columns, n*(n-1)/2
\* in all, with metric "colA~colB" and the block's coefficient; none for the
\* diagonal, none for a mirrored pair, none for a table without block.
C10_CorrPairs ==
    Flattened =>
        \A t \in KeySet(profile) :
            IF HasCorr(t)
            THEN LET cols == Keys(CorrOf(t))
                     n == Len(cols)
                 IN  /\ 2 * Cardinality(CorrRecsOf(t)) = n * (n - 1)
                     /\ \A i \in 1..n : \A j \in 1..n :
                           LET hits == {r \in CorrRecsOf(t) :
                                          flat[r].metric = cols[i] \o "~" \o cols[j]}
                           IN  IF i < j
                               THEN /\ Cardinality(hits) = 1
                                    /\ \A r \in hits :
                                          /\ flat[r].value = Get(Get(CorrOf(t), cols[i]), cols[j])
                                          /\ flat[r].column = ""
                               ELSE hits = {}
            ELSE CorrRecsOf(t) = {}

\* A block over three columns, one coefficient NaN, flattened.
C10_Witness ==
    /\ Flattened
    /\ \E t \in WithCorr :
          /\ Len(CorrOf(t)) = 3
          /\ Cardinality(CorrRecsOf(t)) = 3
          /\ \E r \in CorrRecsOf(t) : flat[r].value.nan
          /\ \E r \in CorrRecsOf(t) : ~flat[r].value.nan

\* ---------------------------------------------------------- chart claims
Charted == pc = "charted"

\* The suggestions of all tables before the cap, table by table.
AllCharts == ChartLoop(<<>>, sample_rows)
KindsOf(cs) == [i \in 1..Len(cs) |-> cs[i].kind]

\* C11: suggest_charts never returns more than 6 suggestions, however many
\* tables and columns the sample rows have.
C11_ChartCap == Charted => Len(charts) <= MaxCharts

\* Three tables with three suggestions each: nine before the cap, six returned.
C11_Witness ==
    /\ Charted
    /\ Len(AllCharts) > MaxCharts
    /\ Len(charts) = MaxCharts

\* What a table offers, read off its raw rows.
HasNumericValue(t) == \E c \in ColumnsOf(t) : Coercible(t, c)
HasCategory(t) ==
    LET df == to_dataframe(RowsOf(t))
    IN  \E c \in ColumnsOf(t) :
            /\ df.series[c].dtype = "object"
            /\ NUniqueStr(df.series[c]) <= MaxCategories
HasDateValue(t) ==
    \E c \in ColumnsOf(t) :
        /\ ContainsDate(Lower(c))
        /\ \E r \in 1..Len(RowsOf(t)) :
              HasKey(RowsOf(t)[r], c) /\ ~IsNull(ToDatetime(Get(RowsOf(t)[r], c)))

\* The kinds a table with rows contributes, in the order histogram, bar, line.
ExpectedKinds(t) ==
    IF RowsOf(t) = <<>> THEN <<>>
    ELSE (IF HasNumericValue(t) THEN <<"hist">> ELSE <<>>)
            \o (IF HasCategory(t) THEN <<"bar">> ELSE <<>>)
            \o (IF HasDateValue(t) /\ HasNumericValue(t) THEN <<"line">> ELSE <<>>)

ExpectedCharts ==
    Concat([i \in 1..Len(sample_rows) |->
              LET kinds == ExpectedKinds(sample_rows[i].k)
              IN  [j \in 1..Len(kinds) |-> <<sample_rows[i].k, kinds[j]>>]])

\* C12: the result is the first 6 elements of the sequence that visits the
\* tables in the order of the mapping and appends, for each table with rows,
\* its histogram, bar and line suggestions in that order; a table without
\* rows contributes nothing.
C12_ChartOrder ==
    Charted =>
        [i \in 1..Len(charts) |-> <<charts[i].table, charts[i].kind>>]
            = HeadN(ExpectedCharts, MaxCharts)

\* A table without rows between tables with suggestions, and the cap cutting
\* the suggestions of the last table short.
C12_Witness ==
    /\ Charted
    /\ Len(charts) = MaxCharts
    /\ \E i, j, k \in 1..Len(sample_rows) :
          /\ i < j /\ j < k
          /\ sample_rows[j].v = <<>>
          /\ \E n \in 1..Len(charts) : charts[n].table = sample_rows[i].k
          /\ \E n \in 1..Len(charts) : charts[n].table = sample_rows[k].k
          /\ Cardinality({n \in 1..Len(charts) : charts[n].table = sample_rows[k].k})
                < Len(ExpectedKinds(sample_rows[k].k))

\* A single table of three columns: one of numbers, one of strings with five
\* different values, none of them a number or a date, and one date-named
\* column of date strings.
ScenarioE ==
    /\ Len(sample_rows) = 1
    /\ LET df == to_dataframe(sample_rows[1].v)
           vals(c) == df.series[c].values
       IN  /\ Len(df.columns) = 3
           /\ \E n, c, d \in Range(df.columns) :
                 /\ n # c /\ n # d /\ c # d
                 /\ is_numeric_dtype(df.series[n]) /\ NotNaAny(df.series[n])
                 /\ \A i \in 1..df.len :
                       /\ vals(c)[i].tag = "str"
                       /\ IsNull(ToNumeric(vals(c)[i])) /\ IsNull(ToDatetime(vals(c)[i]))
                 /\ NUniqueStr(df.series[c]) = 5
                 /\ ContainsDate(Lower(d))
                 /\ \A i \in 1..df.len : ~IsNull(ToDatetime(vals(d)[i]))

RawOf(t, c) ==
    {Get(RowsOf(t)[r], c) : r \in {q \in 1..Len(RowsOf(t)) : HasKey(RowsOf(t)[q], c)}}
HasTopValues(t, c) == HasKey(StatsOf(t, c), "top_values")
TopValuesOf(t, c) == Get(StatsOf(t, c), "top_values")

\* C14: the top_values block of a column counts only its non-null values:
\* each key is the string of a non-null value with its number of occurrences,
\* the counts add up to at most non_null, there are at most 5 entries, and
\* the entries are in non-increasing order of count.
C14_TopValuesNonNull ==
    Profiled =>
        \A t \in NonEmpty : \A c \in ColumnsOf(t) :
            HasTopValues(t, c) =>
                LET tv == TopValuesOf(t, c)
                IN  /\ KeySet(tv) \subseteq {Str(v) : v \in {w \in RawOf(t, c) : ~IsNull(w)}}
                    /\ Sum([i \in 1..Len(tv) |-> tv[i].v]) <= Get(StatsOf(t, c), "non_null")
                    /\ Len(tv) <= TopN
                    /\ \A i \in 1..Len(tv) - 1 : tv[i].v >= tv[i + 1].v

DateKeys == {"min_date", "max_date"}
\* The ordinals of the raw values of column c that parse as a date.
ParsedOf(t, c) == {ToDatetime(v).n : v \in {w \in RawOf(t, c) : ~IsNull(ToDatetime(w))}}
DateNamedOrHinted(t, c) ==
    \/ (HintOf(t, c) # <<>> /\ ContainsDate(HintOf(t, c)[1]))
    \/ ContainsDate(Lower(c))

\* C15: a column of a non-empty table gets min_date and max_date exactly when
\* its hint or its name contains "date" (in any case) and some value parses
\* as a date; they are the earliest and the latest of the values that parse,
\* so min_date <= max_date, and values that do not parse are left out.
C15_DateBlock ==
    Profiled =>
        \A t \in NonEmpty : \A c \in ColumnsOf(t) :
            LET st == StatsOf(t, c)
                ds == ParsedOf(t, c)
            IN  IF DateNamedOrHinted(t, c) /\ ds # {}
                THEN /\ DateKeys \subseteq KeySet(st)
                     /\ Get(st, "min_date") = IsoDate(CHOOSE d \in ds : \A e \in ds : d <= e)
                     /\ Get(st, "max_date") = IsoDate(CHOOSE d \in ds : \A e \in ds : e <= d)
                     /\ DateText[Get(st, "min_date")] <= DateText[Get(st, "max_date")]
                ELSE KeySet(st) \cap DateKeys = {}

\* A date-named column holding 2025-01-01, 2025-03-15 and bad-date, in some
\* order, profiled with min_date 2025-01-01 and max_date 2025-03-15.
C15_Witness ==
    /\ Profiled
    /\ \E t \in NonEmpty : \E c \in ColumnsOf(t) :
          /\ RawOf(t, c) = {Text("2025-01-01"), Text("2025-03-15"), Text("bad-date")}
          /\ HintOf(t, c) = <<>>
          /\ Get(StatsOf(t, c), "min_date") = "2025-01-01"
          /\ Get(StatsOf(t, c), "max_date") = "2025-03-15"

\* C16: the summary has the keys of the sample-rows mapping, in the same
\* order: a table with an empty row list is profiled, a table named only in
\* the schema list is not.
C16_SummaryKeys == Profiled => Keys(profile) = Keys(sample_rows)

\* Two tables profiled, one of them without rows, under a schema list that
\* declares a table without sample rows.
C16_Witness ==
    /\ Profiled
    /\ Len(profile) = 2
    /\ \E t \in TableNames : RowsOf(t) = <<>>
    /\ \E i \in 1..Len(tables) : tables[i].name \notin TableNames

\* The profile of the same sample rows computed without any schema.
Unhinted == compute_profile(sample_rows, <<>>)
UnhintedStatsOf(t, c) == Get(Get(Unhinted, t).columns, c)

\* C17: hints only widen: every stat key a column has when the rows are
\* profiled without schema it also has, with the same value, when they are
\* profiled with the schema list.
C17_HintsOnlyWiden ==
    pc = "profiled" =>
        LET unhinted == Unhinted
        IN  \A i \in 1..Len(unhinted) :
                \A j \in 1..Len(unhinted[i].v.columns) :
                    LET col == unhinted[i].v.columns[j]
                        st == StatsOf(unhinted[i].k, col.k)
                    IN  \A n \in 1..Len(col.v) :
                            HasKey(st, col.v[n].k) /\ Get(st, col.v[n].k) = col.v[n].v

\* A column of ints hinted "string", profiled with its numeric block.
C17_Witness ==
    /\ pc = "profiled"
    /\ \E t \in NonEmpty : \E c \in ColumnsOf(t) :
          /\ HintOf(t, c) = <<"string">>
          /\ \A v \in RawOf(t, c) : v.tag = "int"
          /\ \A r \in 1..Len(RowsOf(t)) : HasKey(RowsOf(t)[r], c)
          /\ HasNumericBlock(t, c)
          /\ HasNumericBlock(t, c) = (NumericKeys \subseteq KeySet(UnhintedStatsOf(t, c)))

\* C18: distinct is the number of different non-null raw values of the
\* column, compared as they were given (the strings "1" and "1.0" are two
\* values); so distinct <= non_null, and distinct = 0 exactly when the column
\* has no non-null value.
C18_DistinctRaw ==
    Profiled =>
        \A t \in NonEmpty : \A c \in ColumnsOf(t) :
            LET distinct == Get(StatsOf(t, c), "distinct")
                values == {v \in RawOf(t, c) : ~IsNull(v)}
            IN  /\ distinct = Cardinality(values)
                /\ distinct <= Get(StatsOf(t, c), "non_null")
                /\ (distinct = 0) = (values = {})

\* A column holding the strings "1" and "1.0", profiled with distinct = 2.
C18_Witness ==
    /\ Profiled
    /\ \E t \in NonEmpty : \E c \in ColumnsOf(t) :
          /\ RawOf(t, c) = {Text("1"), Text("1.0")}
          /\ Get(StatsOf(t, c), "distinct") = 2

\* A column without any non-null value, some of its cells from rows lacking
\* the key, profiled with distinct = 0.
C18_WitnessAllNull ==
    /\ Profiled
    /\ \E t \in NonEmpty : \E c \in ColumnsOf(t) :
          /\ RawOf(t, c) = {None}
          /\ \E r \in 1..Len(RowsOf(t)) : ~HasKey(RowsOf(t)[r], c)
          /\ Get(StatsOf(t, c), "distinct") = 0

\* ------------------------------------------------------------ core claims
\* C19: compute_profile and suggest_charts never raise, whatever scalars
\* (null, boolean, number, text) the rows hold and whatever the schema list:
\* each call returns a result.
C19_NeverRaises == pc # "raised"

\* -------------------------------------------------------- generate claims
Responded == pc = "responded"

\* The generative supplier failed: no key, a failed call, or a payload that
\* cannot be profiled.
SupplierFailed ==
    \/ ~supplier.api_key
    \/ supplier.outcome # "ok"
    \/ compute_profile_raises(sample_rows, tables)

FallbackCaveats == {FallbackCaveat(e) : e \in {JsonError}}

\* C20: any failure of the generative supplier is absorbed: /api/generate
\* answers with the synthetic payload, and a caveat reporting the fallback
\* has been appended to the caveats of that payload.
C20_FailureAbsorbed ==
    (Responded /\ SupplierFailed) =>
        /\ Len(response) = 1
        /\ [response[1] EXCEPT !.caveats = <<>>]
              = [synthetic_payload(prompt) EXCEPT !.caveats = <<>>]
        /\ Len(response[1].caveats) = Len(synthetic_payload(prompt).caveats) + 1
        /\ response[1].caveats[Len(response[1].caveats)] \in FallbackCaveats

\* ------------------------------------------------------------ plot claims
\* A request to /api/plot.png or /api/corr.png has been answered or has
\* failed; the rows it asked for.
Asked == request.seq >= 1
AskedPlot == Asked /\ request.route = "/api/plot.png"
AskedCorr == Asked /\ request.route = "/api/corr.png"
AskedRows == IF request.table \in TableNames THEN RowsOf(request.table) ELSE <<>>
Label == IF request.route = "/api/plot.png" THEN "Plot error: " ELSE "Heatmap error: "
Placeholder(message) ==
    /\ Len(response) = 1
    /\ response[1] = [media_type |-> "image/png", placeholder |-> TRUE,
                      text |-> Label \o message]

C30_FiguresClosed == figures = {}

\* ------------------------------------------------- supplied payload claims
\* /api/generate answered with the payload of the generative supplier.
Answered ==
    /\ Responded /\ ~SupplierFailed
    /\ Len(response) = 1
    /\ response[1].dataset_description = supplier.description

\* C22: when the supplier returns a valid payload, compute_profile is called
\* and its result stored only if the payload has no profiling summary, and
\* suggest_charts only if it has no suggested charts; a profiling summary
\* and charts that the payload brings are returned unchanged.
C22_SuppliedKept ==
    Answered =>
        /\ response[1].profiling_summary =
              IF supplier.profiling # <<>> THEN supplier.profiling
              ELSE compute_profile(sample_rows, tables)
        /\ response[1].suggested_charts =
              IF supplier.charts # <<>> THEN supplier.charts
              ELSE suggest_charts(sample_rows)

\* C26: every payload returned by /api/generate carries at most 6 suggested
\* charts, also when the payload of the supplier brings its own charts.
C26_ChartCapOfPayload == Responded => Len(response[1].suggested_charts) <= MaxCharts

\* ---------------------------------------------------- reproducibility claim
\* C23: synthetic_payload is reproducible: every call returns the same
\* sample rows, whatever calls of the shared random source came before and
\* also when several calls run in worker threads at once and their seed and
\* draw steps interleave.
C23_Reproducible ==
    \A w \in 1..MaxWorkers : workers[w].at = "done" => workers[w].rows = SeededRows

\* -------------------------------------------------------- main.py claims
\* C25: compute_profile, suggest_charts and profile_to_rows of src/main.py
\* return what the functions of the same names of the dataide.services
\* package return, on the same arguments.
C25_MainAgrees ==
    /\ Profiled => profile = main_compute_profile(sample_rows, tables)
    /\ Flattened => flat = main_profile_to_rows(profile)
    /\ Charted => charts = main_suggest_charts(sample_rows)

\* A table with a correlation block was profiled and flattened, and the
\* copy of main.py flattens it to the same records.
C25_Witness ==
    /\ Flattened /\ \E t \in NonEmpty : HasCorr(t)
    /\ profile = main_compute_profile(sample_rows, tables)
    /\ flat = main_profile_to_rows(profile)
    /\ \E i \in 1..Len(flat) : flat[i].level = "correlation"

ChartsOf(t, kind) == {i \in 1..Len(charts) : charts[i].table = t /\ charts[i].kind = kind}
FirstOf(t, good) == FirstColumn(to_dataframe(RowsOf(t)), good)
NumericOf(t) == {c \in ColumnsOf(t) : Coercible(t, c)}
DatedOf(t) ==
    {c \in ColumnsOf(t) :
        /\ ContainsDate(Lower(c))
        /\ \E r \in 1..Len(RowsOf(t)) :
              HasKey(RowsOf(t)[r], c) /\ ~IsNull(ToDatetime(Get(RowsOf(t)[r], c)))}
CategoriesOf(t) ==
    LET df == to_dataframe(RowsOf(t))
    IN  {c \in ColumnsOf(t) :
            /\ df.series[c].dtype = "object"
            /\ Cardinality({Str(IF HasKey(RowsOf(t)[r], c) THEN Get(RowsOf(t)[r], c)
                                ELSE NaN) : r \in 1..Len(RowsOf(t))}) <= 30}

\* C27: a table gets a line suggestion exactly when it has a date-named
\* column with a non-null date and a column with a non-null number; its x is
\* the first such date column, its y the first column with a number; a
\* table gets at most one line suggestion.
C27_LineIff ==
    Charted =>
        \A t \in TableNames :
            /\ Cardinality(ChartsOf(t, "line")) <= 1
            /\ ChartsOf(t, "line") # {}
                  <=> (RowsOf(t) # <<>> /\ DatedOf(t) # {} /\ NumericOf(t) # {})
            /\ \A i \in ChartsOf(t, "line") :
                  /\ <<charts[i].x>> = FirstOf(t, DatedOf(t))
                  /\ charts[i].y = FirstOf(t, NumericOf(t))

\* C28: a table gets at most one histogram and at most one bar suggestion;
\* a histogram is on the first column with a non-null number, a bar on the
\* first column of object dtype with at most 30 different stringified
\* values; a table without rows or without such a column gets none.  The
\* first two tables of the mapping, whose suggestions the cap of 6 cannot
\* cut, get the one whenever a column qualifies.
C28_HistAndBar ==
    Charted =>
        \A p \in 1..Len(sample_rows) :
            LET t == sample_rows[p].k
                numbers == NumericOf(t)
                categories == CategoriesOf(t)
                numeric == RowsOf(t) # <<>> /\ numbers # {}
                category == RowsOf(t) # <<>> /\ categories # {}
            IN  /\ Cardinality(ChartsOf(t, "hist")) <= 1
                /\ Cardinality(ChartsOf(t, "bar")) <= 1
                /\ ChartsOf(t, "hist") # {} => numeric
                /\ ChartsOf(t, "bar") # {} => category
                /\ p <= 2 => (numeric => ChartsOf(t, "hist") # {})
                /\ p <= 2 => (category => ChartsOf(t, "bar") # {})
                /\ \A i \in ChartsOf(t, "hist") : <<charts[i].x>> = FirstOf(t, numbers)
                /\ \A i \in ChartsOf(t, "bar") : <<charts[i].x>> = FirstOf(t, categories)

\* A text column of 31 different values comes first and gets no bar chart;
\* the bar chart is on the column after it.
C28_Witness ==
    /\ Charted /\ Keys(sample_rows) = <<"t">>
    /\ to_dataframe(RowsOf("t")).columns = <<"code", "a">>
    /\ "code" \notin CategoriesOf("t")
    /\ \E i \in 1..Len(charts) : charts[i].kind = "bar" /\ charts[i].x = "a"

\* Place of key k among the keys of a mapping.
PlaceIn(mapping, k) == CHOOSE p \in 1..Len(mapping) : mapping[p].k = k

LevelRank == [table |-> 0, column |-> 1, correlation |-> 2]

IsTableRec(rec) == rec.level = "table"

\* Record i of the flattened rows and the one after it are in order: the
\* table of the second is not an earlier one; within a table the level does
\* not go back, and of two column records the second is of a later column or
\* of a later stat key of the same column.
InOrder(i) ==
    LET r == flat[i]
        s == flat[i + 1]
        cols == InfoOf(r.table).columns
    IN  /\ PlaceIn(profile, r.table) <= PlaceIn(profile, s.table)
        /\ r.table = s.table =>
              /\ LevelRank[r.level] <= LevelRank[s.level]
              /\ (r.level = "column" /\ s.level = "column") =>
                    \/ PlaceIn(cols, r.column) < PlaceIn(cols, s.column)
                    \/ /\ r.column = s.column
                       /\ PlaceIn(Get(cols, r.column), r.metric)
                            < PlaceIn(Get(cols, r.column), s.metric)

\* C29: in the flattened rows the records of a table are contiguous and the
\* tables come in the order of the profile; a table's first record is its
\* 'table' record, its 'column' records follow in the order of the profile's
\* columns and, within a column, of its stat keys, and its 'correlation'
\* records come last; 'table' and 'correlation' records have column "".
\* (Each record is compared with its successor; the order is transitive.)
C29_RecordOrder ==
    Flattened =>
        /\ \A i \in 1..Len(flat) :
              /\ flat[i].table \in KeySet(profile)
              /\ flat[i].level \in {"table", "correlation"} => flat[i].column = ""
              /\ (i = 1 \/ flat[i - 1].table # flat[i].table) => flat[i].level = "table"
        /\ \A i \in 1..(Len(flat) - 1) : InOrder(i)
        /\ LET heads == SelectSeq(flat, IsTableRec)
           IN  [p \in 1..Len(heads) |-> heads[p].table] = Keys(profile)

\* Two tables flattened: the correlation records of the first, which follow
\* its column records, are followed by the 'table' record of the second,
\* which has column records of two columns.
C29_Witness ==
    /\ Flattened /\ Len(profile) = 2
    /\ \E i \in 2..(Len(flat) - 2) :
          /\ flat[i - 1].level = "column"
          /\ flat[i].level = "correlation" /\ flat[i].table = profile[1].k
          /\ flat[i + 1].level = "table" /\ flat[i + 1].table = profile[2].k
          /\ flat[i + 2].level = "column"
    /\ Cardinality({flat[i].column : i \in 1..Len(flat)}) >= 3

====
